---- MODULE Spec2Model ----
(***************************************************************************)
(* Model of the supermarket reconciler (scripts/sync-supermarkets.js), the *)
(* store it writes (supabase/migrations) and the read API                  *)
(* (src/services/databaseService.ts).                                      *)
(*                                                                         *)
(* Units.  Time is counted in hours.  Coordinates are tenths of a degree,  *)
(* so that the bounding box 50.5..53.7 / 3.2..7.3 is 505..537 / 32..73.    *)
(* An absent external id (place_id undefined / google_place_id NULL) is    *)
(* the empty string; an absent opening_hours.open_now is "undefined".      *)
(* Fields named g_* are history fields: they record what was true when a   *)
(* record was normalized, or what a run found and did, and are never read  *)
(* by the modelled code.                                                   *)
(***************************************************************************)
EXTENDS Integers, Sequences, FiniteSets, TLC

\* ------------------------------------------------------------------ bounds
MaxTime == 48
TickHours == 24
MaxIncidents == 1
MaxRuns == 2
MaxBatchLen == 3
\* upsertSupermarkets groups its writes by batchSize, 50 in the script; the
\* model groups them two by two, so that a run of a few records spans
\* several batches
batchSize == 2
\* the incidents a store holds before the first call, and the highest id
\* bulkUpdateSupermarkets may give a row
MaxStored == 2
MaxRowId == 4

\* ------------------------------------------------------- program constants
\* NETHERLANDS_BOUNDS, in tenths of a degree
NORTH == 537
SOUTH == 505
EAST == 73
WEST == 32
\* hasRecentIncidents: setHours(getHours() - 24)
RecentHours == 24

DUTCH_SUPERMARKET_CHAINS == <<"Albert Heijn", "Jumbo", "Lidl">>

ActiveStatuses == {"open", "investigating"}
IncidentStatuses == {"open", "investigating", "resolved", "closed"}

\* ------------------------------------------------- external search results
\* The places below share one formatted_address; PlaceAt gives a place
\* another one.
Place(id, nm, la, lo, bs, on) ==
  [place_id |-> id, name |-> nm, lat |-> la, lng |-> lo,
   business_status |-> bs, open_now |-> on,
   formatted_address |-> "Kade 1, 1234 AB Ede, Netherlands"]

PlaceAt(place, formatted_address) ==
  [place EXCEPT !.formatted_address = formatted_address]

PA == Place("ChIJ_a", "Albert Heijn Centrum", 523, 49, "OPERATIONAL", "true")
PB == Place("ChIJ_b", "Jumbo Markt", 519, 44, "OPERATIONAL", "undefined")
PC == Place("ChIJ_c", "Lidl Noord", 530, 60, "CLOSED_TEMPORARILY", "true")
\* the location of PA, found temporarily closed
PAc == Place("ChIJ_a", "Albert Heijn Centrum", 523, 49, "CLOSED_TEMPORARILY",
             "true")
PN == Place("", "Lidl Plein", 521, 51, "OPERATIONAL", "true")
PX == Place("ChIJ_x", "Jumbo Brussel", 600, 44, "OPERATIONAL", "true")
PD == Place("ChIJ_d", "Jumbo Oud", 520, 50, "OPERATIONAL", "false")
\* places without an external id: PNc is PN found closed, PM its neighbour
PNc == Place("", "Lidl Plein", 521, 51, "CLOSED_TEMPORARILY", "true")
PM == Place("", "Jumbo Plein", 521, 51, "OPERATIONAL", "false")
\* PN found a tenth of a degree further north, and PN found at another
\* address
PNn == Place("", "Lidl Plein", 522, 51, "OPERATIONAL", "true")
PNa == PlaceAt(PN, "Plein 9, 1234 AB Ede, Netherlands")

\* places on the corners of the bounding box, and places one tenth of a
\* degree outside each of its sides
PS == Place("ChIJ_s", "Jumbo Zuidwest", 505, 32, "OPERATIONAL", "true")
PT == Place("ChIJ_t", "Lidl Noordoost", 537, 73, "OPERATIONAL", "true")
PU == Place("ChIJ_u", "Jumbo Zuid", 504, 50, "OPERATIONAL", "true")
PV == Place("ChIJ_v", "Jumbo Oost", 520, 74, "OPERATIONAL", "true")
PW == Place("ChIJ_w", "Lidl West", 520, 31, "OPERATIONAL", "true")
PY == Place("ChIJ_y", "Lidl Noord Buiten", 538, 50, "OPERATIONAL", "true")

BusinessStatuses == {"OPERATIONAL", "CLOSED_TEMPORARILY", "CLOSED_PERMANENTLY"}
OpenNow == {"true", "false", "undefined"}

\* What the external search answers for the three chain queries: an error
\* (network failure, non-OK HTTP status, REQUEST_DENIED, other API status)
\* or the list of results (ZERO_RESULTS is the empty list).
Ok(results) == [ok |-> TRUE, results |-> results]
Err == [ok |-> FALSE, results |-> <<>>]

ExtScenarios ==
  { <<Ok(<<PA>>), Ok(<<PB>>), Ok(<<PC>>)>>,
    <<Ok(<<PA, PB>>), Ok(<<PB, PA>>), Ok(<<>>)>>,
    <<Err, Ok(<<PA, PB>>), Ok(<<PC>>)>>,
    <<Ok(<<PA>>), Err, Ok(<<PB, PX>>)>>,
    <<Ok(<<PN>>), Ok(<<PA>>), Err>>,
    <<Ok(<<PX>>), Ok(<<>>), Err>>,
    <<Ok(<<PB, PC>>), Ok(<<PN>>), Ok(<<PA>>)>>,
    <<Ok(<<PS, PU, PV>>), Ok(<<PW, PT, PY>>), Ok(<<PX>>)>>,
    <<Err, Err, Err>> }

VARIABLES
  supermarkets,   \* table supermarkets: a set of rows
  incidents,      \* table supermarket_incidents: a set of rows
  sync_metadata,  \* table sync_metadata: the rows, by id
  ids,            \* next fresh row ids: [sup, inc]
  now,            \* the clock, in hours
  ext,            \* the external search's answer per chain query
  apiKey,         \* GOOGLE_PLACES_API_KEY is set
  runs,           \* number of reconciler runs started
  run,            \* the reconciler process: its position and locals
  settled,        \* {} or {the store as the last clean complete run left it}
  served,         \* what the last fetchSupermarkets returned
  reply,          \* what the last incident or admin call of the service got
  localStorage,   \* the browser's item 'supermarkets_cache'
  fetched         \* what the last call of placesService returned

vars == <<supermarkets, incidents, sync_metadata, ids, now, ext, apiKey,
          runs, run, settled, served, reply, localStorage, fetched>>

\* --------------------------------------------------------------- helpers
Range(s) == {s[i] : i \in 1..Len(s)}

Min(a, b) == IF a <= b THEN a ELSE b

\* ------------------------------------------------------------ JS strings
\* Strings are sequences of characters; a character is a string of length 1.
Digits == {"0", "1", "2", "3", "4", "5", "6", "7", "8", "9"}

UpperCase ==
  {"A", "B", "C", "D", "E", "F", "G", "H", "I", "J", "K", "L", "M", "N", "O",
   "P", "Q", "R", "S", "T", "U", "V", "W", "X", "Y", "Z"}

LowerCase ==
  {"a", "b", "c", "d", "e", "f", "g", "h", "i", "j", "k", "l", "m", "n", "o",
   "p", "q", "r", "s", "t", "u", "v", "w", "x", "y", "z"}

\* \s, as far as the model's texts go, and \w
WhiteSpace == {" ", "\t"}
WordChars == Digits \cup UpperCase \cup LowerCase \cup {"_"}

CharAt(s, i) == SubSeq(s, i, i)

\* s.indexOf(t), counted from 1; 0 when t does not occur
IndexOf(s, t) ==
  LET at == {i \in 1..(Len(s) - Len(t) + 1) : SubSeq(s, i, i + Len(t) - 1) = t}
  IN IF at = {} THEN 0 ELSE CHOOSE i \in at : \A j \in at : i <= j

\* s.split(sep), for a separator that is not empty
RECURSIVE Split(_, _)
Split(s, sep) ==
  LET i == IndexOf(s, sep)
  IN IF i = 0 THEN <<s>>
     ELSE <<SubSeq(s, 1, i - 1)>> \o Split(SubSeq(s, i + Len(sep), Len(s)), sep)

\* parts.join(sep)
RECURSIVE Join(_, _)
Join(parts, sep) ==
  IF parts = <<>> THEN ""
  ELSE IF Len(parts) = 1 THEN parts[1]
  ELSE parts[1] \o sep \o Join(Tail(parts), sep)

\* s.trim()
Trim(s) ==
  LET ink == {i \in 1..Len(s) : CharAt(s, i) \notin WhiteSpace}
  IN IF ink = {} THEN ""
     ELSE SubSeq(s, CHOOSE i \in ink : \A j \in ink : i <= j,
                    CHOOSE i \in ink : \A j \in ink : i >= j)

\* s.replace(t, ''), t a string: the first occurrence of t is taken out
ReplaceFirst(s, t) ==
  LET i == IndexOf(s, t)
  IN IF i = 0 \/ t = "" THEN s
     ELSE SubSeq(s, 1, i - 1) \o SubSeq(s, i + Len(t), Len(s))

\* /\d/.test(s)
HasDigit(s) == \E i \in 1..Len(s) : CharAt(s, i) \in Digits

\* postalCodeRegex = /\b(\d{4}\s?[A-Z]{2})\b/ matches in part from position
\* i on, with w whitespace characters (0 or 1) after the digits.
PostalCodeAt(part, i, w) ==
  /\ i + 5 + w <= Len(part)
  /\ i = 1 \/ CharAt(part, i - 1) \notin WordChars
  /\ \A j \in i..(i + 3) : CharAt(part, j) \in Digits
  /\ w = 1 => CharAt(part, i + 4) \in WhiteSpace
  /\ CharAt(part, i + 4 + w) \in UpperCase
  /\ CharAt(part, i + 5 + w) \in UpperCase
  /\ i + 5 + w = Len(part) \/ CharAt(part, i + 6 + w) \notin WordChars

\* part.match(postalCodeRegex): the leftmost match as <<i, w>>, <<>> when
\* there is none (at one position at most one w matches).
PostalCodeMatch(part) ==
  LET at == {m \in (1..Len(part)) \X {0, 1} : PostalCodeAt(part, m[1], m[2])}
  IN IF at = {} THEN <<>>
     ELSE CHOOSE m \in at : \A m2 \in at : m[1] <= m2[1]

\* match[1].replace(/\s+/g, ' ')
PostalCodeOf(part, m) ==
  SubSeq(part, m[1], m[1] + 3)
    \o (IF m[2] = 1 THEN " " ELSE "")
    \o SubSeq(part, m[1] + 4 + m[2], m[1] + 5 + m[2])

\* The loop over addressParts from the last part to the first: the index of
\* the first part found to hold a postal code, 0 when none does.
PostalCodePartIndex(addressParts) ==
  LET hits == {i \in 1..Len(addressParts) :
                 PostalCodeMatch(addressParts[i]) # <<>>}
  IN IF hits = {} THEN 0 ELSE CHOOSE i \in hits : \A j \in hits : i >= j

\* addressParts.splice(i, 1)
Splice(parts, i) ==
  SubSeq(parts, 1, i - 1) \o SubSeq(parts, i + 1, Len(parts))

\* The filter of the country names, had it filtered nothing.
CountryLiteralsNone == {}

CountryLiterals == {"Netherlands", "Nederland", "The Netherlands"}

\* The address parsing of convertToSupermarketData, step by step.  A state
\* of the parsing is the record of its variables postalCode, city and
\* addressParts.
\* The body of `if (match)`: postalCode is taken from the part, what is
\* left of the part is the city, and the part is spliced out.
PostalCodeFound(addressParts, i, postalCode) ==
  [postalCode |-> postalCode,
   city |-> Trim(ReplaceFirst(addressParts[i], postalCode)),
   addressParts |-> Splice(addressParts, i)]

\* The loop that looks for the postal code, i being the part that holds it.
PostalCodeLoop(addressParts, i) ==
  IF i = 0
  THEN [postalCode |-> "", city |-> "", addressParts |-> addressParts]
  ELSE PostalCodeFound(addressParts, i,
         PostalCodeOf(addressParts[i], PostalCodeMatch(addressParts[i])))

\* if (!city && addressParts.length > 0): the last part is the city when it
\* has no digit and more than 2 and less than 50 characters.
CityFromLastPart(parsing, lastPart) ==
  IF /\ parsing.city = ""
     /\ parsing.addressParts # <<>>
     /\ ~HasDigit(lastPart)
     /\ Len(lastPart) > 2
     /\ Len(lastPart) < 50
  THEN [parsing EXCEPT !.city = lastPart,
                       !.addressParts = SubSeq(@, 1, Len(@) - 1)]
  ELSE parsing

\* addressParts.filter(part => !literals.includes(part.trim())).join(', ')
\* .trim()
FilteredAddress(addressParts) ==
  Trim(Join(SelectSeq(addressParts,
                      LAMBDA part : Trim(part) \notin CountryLiterals),
            ", "))

\* if (!city && place.name): the last word of a name of more than two
\* words, when it has more than 3 characters and no digit.
CityFromName(city, name, nameParts, possibleCity) ==
  IF /\ city = ""
     /\ name # ""
     /\ Len(nameParts) > 2
     /\ Len(possibleCity) > 3
     /\ ~HasDigit(possibleCity)
  THEN possibleCity ELSE city

\* if (!address && place.formatted_address): the first part of the
\* formatted address, unless it is the name.
AddressFallback(address, formatted_address, name, firstPart) ==
  IF /\ address = ""
     /\ formatted_address # ""
     /\ firstPart # ""
     /\ Trim(firstPart) # name
  THEN Trim(firstPart) ELSE address

\* address || 'Onbekend adres', city || 'Onbekende stad', postal_code
ParsedAddress(address, city, postalCode) ==
  [address |-> IF address = "" THEN "Onbekend adres" ELSE address,
   city |-> IF city = "" THEN "Onbekende stad" ELSE city,
   postal_code |-> postalCode]

\* What follows the search for the city among the parts.
ParseRest(parsing, formatted_address, name, nameParts) ==
  ParsedAddress(
    AddressFallback(FilteredAddress(parsing.addressParts),
                    formatted_address, name,
                    Split(formatted_address, ",")[1]),
    Trim(CityFromName(parsing.city, name, nameParts,
                      nameParts[Len(nameParts)])),
    Trim(parsing.postalCode))

ParseParts(parsing, formatted_address, name) ==
  ParseRest(CityFromLastPart(parsing,
                             parsing.addressParts[Len(parsing.addressParts)]),
            formatted_address, name, Split(name, " "))

\* formatted_address and name to address, city and postal_code.
ParseAddress(formatted_address, name) ==
  ParseParts(PostalCodeLoop(Split(formatted_address, ", "),
               PostalCodePartIndex(Split(formatted_address, ", "))),
             formatted_address, name)

\* ------------------------------------------------------- sync-supermarkets
\* isInNetherlands without the test of the eastern bound.
isInNetherlandsNoEast(lat, lng) ==
  /\ lat >= SOUTH
  /\ lat <= NORTH
  /\ lng >= WEST

isInNetherlands(lat, lng) ==
  /\ lat >= SOUTH
  /\ lat <= NORTH
  /\ lng >= WEST
  /\ lng <= EAST

\* The rows a select ... .eq('google_place_id', g) returns.
RowsByPlaceId(g) == {s \in supermarkets : s.google_place_id = g}

\* hasRecentIncidents answering true whenever a select fails or the location
\* row is not found.
hasRecentIncidentsFailClosed(googlePlaceId, rowOk, incOk) ==
  IF googlePlaceId = "" THEN FALSE
  ELSE LET twentyFourHoursAgo == now - RecentHours
           found == RowsByPlaceId(googlePlaceId)
       IN IF ~rowOk \/ Cardinality(found) # 1 THEN TRUE
          ELSE LET supermarket == CHOOSE s \in found : TRUE
                   data == {i \in incidents :
                              /\ i.supermarket_id = supermarket.id
                              /\ i.created_at >= twentyFourHoursAgo
                              /\ i.status \in {"open", "investigating"}}
               IN IF ~incOk THEN TRUE ELSE data # {}

\* hasRecentIncidents(googlePlaceId).  rowOk / incOk: the two selects return
\* without error.  .single() answers an error unless exactly one row matches.
hasRecentIncidents(googlePlaceId, rowOk, incOk) ==
  IF googlePlaceId = "" THEN FALSE
  ELSE LET twentyFourHoursAgo == now - RecentHours
           found == RowsByPlaceId(googlePlaceId)
       IN IF ~rowOk \/ Cardinality(found) # 1 THEN FALSE
          ELSE LET supermarket == CHOOSE s \in found : TRUE
                   data == {i \in incidents :
                              /\ i.supermarket_id = supermarket.id
                              /\ i.created_at >= twentyFourHoursAgo
                              /\ i.status \in {"open", "investigating"}}
               IN IF ~incOk THEN FALSE ELSE data # {}

\* determineStatus(place, googlePlaceId); recent is what hasRecentIncidents
\* answered (it is only consulted for a truthy googlePlaceId).
\* determineStatus without the CLOSED_TEMPORARILY test.
determineStatusNoTemporary(place, googlePlaceId, recent) ==
  IF place.business_status = "CLOSED_PERMANENTLY" THEN "closed"
  ELSE IF googlePlaceId # "" /\ recent THEN "closed"
  ELSE IF place.open_now # "undefined"
       THEN (IF place.open_now = "true" THEN "open" ELSE "closed")
  ELSE "closed"

\* determineStatus without the recent-incident test.
determineStatusNoIncidents(place, googlePlaceId, recent) ==
  IF place.business_status = "CLOSED_PERMANENTLY" THEN "closed"
  ELSE IF place.business_status = "CLOSED_TEMPORARILY" THEN "closed"
  ELSE IF place.open_now # "undefined"
       THEN (IF place.open_now = "true" THEN "open" ELSE "closed")
  ELSE "closed"

\* determineStatus with an optimistic default when open_now is absent.
determineStatusOpenDefault(place, googlePlaceId, recent) ==
  IF place.business_status = "CLOSED_PERMANENTLY" THEN "closed"
  ELSE IF place.business_status = "CLOSED_TEMPORARILY" THEN "closed"
  ELSE IF googlePlaceId # "" /\ recent THEN "closed"
  ELSE IF place.open_now # "undefined"
       THEN (IF place.open_now = "true" THEN "open" ELSE "closed")
  ELSE "open"

determineStatus(place, googlePlaceId, recent) ==
  IF place.business_status = "CLOSED_PERMANENTLY" THEN "closed"
  ELSE IF place.business_status = "CLOSED_TEMPORARILY" THEN "closed"
  ELSE IF googlePlaceId # "" /\ recent THEN "closed"
  ELSE IF place.open_now # "undefined"
       THEN (IF place.open_now = "true" THEN "open" ELSE "closed")
       ELSE "closed"

\* Ground truth: the location with this external id is in
\* the store and has an active incident created in the last 24 hours.
RecentActiveIncident(g) ==
  /\ g # ""
  /\ \E s \in supermarkets : \E i \in incidents :
        /\ s.google_place_id = g
        /\ i.supermarket_id = s.id
        /\ i.status \in ActiveStatuses
        /\ now - i.created_at <= RecentHours

\* The normalized record convertToSupermarketData returns, given the status;
\* looked and truth are history: the lookups succeeded, and the location
\* then had a recent active incident.
Normalized(place, status, looked, truth) ==
  LET parsed == ParseAddress(place.formatted_address, place.name) IN
  [name |-> place.name,
   address |-> parsed.address,
   city |-> parsed.city,
   postal_code |-> parsed.postal_code,
   latitude |-> place.lat,
   longitude |-> place.lng,
   status |-> status,
   google_place_id |-> place.place_id,
   g_raw |-> place,
   g_looked |-> looked,
   g_recent |-> truth]

\* convertToSupermarketData(place)
convertToSupermarketData(place, rowOk, incOk) ==
  LET recent == hasRecentIncidents(place.place_id, rowOk, incOk)
      status == determineStatus(place, place.place_id, recent)
  IN Normalized(place, status, rowOk /\ incOk,
                RecentActiveIncident(place.place_id))

\* deduplicateResults: the key of a record
DedupeKey(result) ==
  IF result.google_place_id # "" THEN result.google_place_id
  ELSE result.name \o "-" \o ToString(result.latitude) \o "-"
         \o ToString(result.longitude)

RECURSIVE DedupeFrom(_, _)
DedupeFrom(results, seen) ==
  IF results = <<>> THEN <<>>
  ELSE LET key == DedupeKey(Head(results))
       IN IF key \notin seen
          THEN <<Head(results)>> \o DedupeFrom(Tail(results), seen \cup {key})
          ELSE DedupeFrom(Tail(results), seen)

\* deduplicateResults that never records a key as seen.
deduplicateResultsNoSeen(results) == results

deduplicateResults(results) == DedupeFrom(results, {})

\* ------------------------------------------------------------- the callers
\* A call reaches the store with the role of its key or session (auth.role())
\* and with the role claim of its JWT's user_metadata, "null" when the JWT
\* has none.
Caller(role, claim) == [role |-> role, claim |-> claim]

Anon == Caller("anon", "null")
NoClaim == Caller("authenticated", "null")
User == Caller("authenticated", "user")
Admin == Caller("authenticated", "supermarket_admin")
Service == Caller("service_role", "null")

Callers == {Anon, NoClaim, User, Admin, Service}

\* SQL's three-valued logic: =, AND and NOT over "true", "false", "null".
SqlEq(a, b) ==
  IF a = "null" \/ b = "null" THEN "null"
  ELSE IF a = b THEN "true" ELSE "false"

SqlAnd(x, y) ==
  IF x = "false" \/ y = "false" THEN "false"
  ELSE IF x = "null" \/ y = "null" THEN "null"
  ELSE "true"

SqlNot(x) ==
  IF x = "null" THEN "null"
  ELSE IF x = "true" THEN "false" ELSE "true"

\* The test that opens get_admin_dashboard_stats and bulk_resolve_incidents:
\*   IF NOT (auth.role() = 'authenticated' AND
\*           (auth.jwt() ->> 'user_metadata')::jsonb ->> 'role'
\*             = 'supermarket_admin')
\*   THEN RAISE EXCEPTION 'Access denied. Admin role required.';
\* PL/pgSQL takes the THEN branch only when the condition is true; a
\* condition that is null is not.
AccessDenied(caller) ==
  SqlNot(SqlAnd(SqlEq(caller.role, "authenticated"),
                SqlEq(caller.claim, "supermarket_admin"))) = "true"

\* The table privileges of the caller's role.  The second migration grants
\* everything to service_role, and to anon and authenticated SELECT on the
\* three tables and INSERT on supermarket_incidents; defaults says that anon
\* and authenticated also hold the privileges a platform gives them by
\* default on the tables of schema public, which the migrations neither
\* grant nor revoke.
Granted(caller, table, cmd, defaults) ==
  \/ caller.role = "service_role"
  \/ cmd = "SELECT"
  \/ table = "supermarket_incidents" /\ cmd = "INSERT"
  \/ defaults

\* The row-level security policies of the second migration, the same on the
\* three tables but for the public INSERT on supermarket_incidents: SELECT
\* for everyone, everything for service_role and for anon, everything for
\* authenticated when the role claim is 'supermarket_admin' (a policy
\* expression that is null does not pass).
PolicyAllows(caller, table, cmd) ==
  \/ cmd = "SELECT"
  \/ table = "supermarket_incidents" /\ cmd = "INSERT"
  \/ caller.role \in {"service_role", "anon"}
  \/ /\ caller.role = "authenticated"
     /\ SqlEq(caller.claim, "supermarket_admin") = "true"

\* The columns of supermarket_incidents.
IncidentColumns ==
  {"id", "supermarket_id", "incident_type", "description", "reporter_email",
   "reporter_name", "priority", "status", "admin_notes", "created_at",
   "updated_at"}

\* update_updated_at_column, had it assigned the column the table has.
update_updated_at_columnForIncidents == "updated_at"

\* update_updated_at_column(): the column of NEW it assigns.
update_updated_at_column == "last_updated"

\* CREATE TRIGGER update_incidents_updated_at BEFORE UPDATE ON
\* supermarket_incidents FOR EACH ROW EXECUTE FUNCTION
\* update_updated_at_column(): the function runs for every row an UPDATE is
\* about to change, and the assignment to a field the row does not have
\* raises (record "new" has no field "last_updated"), which aborts the
\* statement.
IncidentTriggerRaises == update_updated_at_column \notin IncidentColumns

\* incident_type TEXT NOT NULL CHECK (incident_type IN (...))
DbIncidentTypes ==
  {"machine_broken", "machine_full", "no_receipt", "wrong_amount", "other"}

\* The incident kinds of the application: the radio group of
\* IncidentReportDialog and, from the enumeration of the incident type,
\* 'other'.
AppIncidentTypes ==
  {"machine_broken", "machine_full", "machine_offline",
   "no_bottles_accepted", "partial_functionality", "other"}

Priorities == {"low", "medium", "high", "urgent"}

\* What a call of the service got: the error it throws ("null" when none)
\* or its data, as a tuple of numbers.
Reply(op, caller, error, data) ==
  [op |-> op, caller |-> caller, error |-> error, data |-> data]

NoReply == Reply("none", Anon, "null", <<>>)

\* A row of supermarket_incidents.
IncidentRow(id, supermarket_id, incident_type, priority, reporter, status,
            created_at) ==
  [id |-> id, supermarket_id |-> supermarket_id,
   incident_type |-> incident_type, priority |-> priority,
   reporter_name |-> reporter, reporter_email |-> reporter,
   status |-> status, created_at |-> created_at, admin_notes |-> "null"]

\* IncidentReportForm; priority "undefined" and reporter "null" when the
\* caller gives none.
Form(supermarket_id, incident_type, priority, reporter) ==
  [supermarket_id |-> supermarket_id, incident_type |-> incident_type,
   priority |-> priority, reporter |-> reporter]

\* ----------------------------------------------------------- the browser
\* placesService: CACHE_EXPIRY_HOURS
CACHE_EXPIRY_HOURS == 24

\* What localStorage.getItem(CACHE_KEY) holds: nothing; a text JSON.parse
\* throws on (or the text 'null', on which the read of .timestamp throws);
\* an object without a numeric timestamp; or a CachedData object.
NoEntry == [kind |-> "absent", timestamp |-> 0, data |-> {}]
Unparsable == [kind |-> "unparsable", timestamp |-> 0, data |-> {}]
NoTimestamp(data) == [kind |-> "noTimestamp", timestamp |-> 0, data |-> data]
CachedData(timestamp, data) ==
  [kind |-> "entry", timestamp |-> timestamp, data |-> data]

\* isValidCache with an entry of exactly the maximum age still valid.
isValidCacheInclusive(cached) ==
  /\ cached.kind = "entry"
  /\ LET cacheAge == now - cached.timestamp
         maxAge == CACHE_EXPIRY_HOURS
     IN cacheAge <= maxAge

\* isValidCache(cached); with no numeric timestamp the age is NaN and the
\* comparison false.
isValidCache(cached) ==
  /\ cached.kind = "entry"
  /\ LET cacheAge == now - cached.timestamp
         maxAge == CACHE_EXPIRY_HOURS
     IN cacheAge < maxAge

\* getCachedData(): the data it returns ("null" as found FALSE) and what it
\* leaves in localStorage.
getCachedData ==
  IF localStorage.kind = "absent"
  THEN [found |-> FALSE, data |-> {}, storage |-> localStorage]
  ELSE IF localStorage.kind = "unparsable"
  THEN [found |-> FALSE, data |-> {}, storage |-> NoEntry]
  ELSE IF isValidCache(localStorage)
  THEN [found |-> TRUE, data |-> localStorage.data, storage |-> localStorage]
  ELSE [found |-> FALSE, data |-> {}, storage |-> NoEntry]

\* What a call of placesService returned: from where ("cache", "file",
\* "database", or "error" when it threw or found nothing) and what; g_item
\* and g_at are the item the call found in localStorage and the time of the
\* call.
Fetched(op, forceRefresh, from, data) ==
  [op |-> op, forceRefresh |-> forceRefresh, from |-> from, data |-> data,
   g_item |-> localStorage, g_at |-> now]

NoFetch ==
  [op |-> "none", forceRefresh |-> FALSE, from |-> "none", data |-> {},
   g_item |-> NoEntry, g_at |-> 0]

\* The content of a pre-synced data file.
SyncedData == {[id |-> 9, status |-> "open"]}

\* ------------------------------------------------------------ initial state
NoMetadata ==
  [id |-> 1, last_sync |-> -1, total_locations |-> -1, status |-> "null",
   error_message |-> "null"]

\* A location synced by an earlier run.
RowA ==
  [id |-> 1, google_place_id |-> "ChIJ_a", name |-> "Albert Heijn Centrum",
   latitude |-> 523, longitude |-> 49, status |-> "open",
   address |-> ParseAddress(PA.formatted_address, PA.name).address,
   city |-> ParseAddress(PA.formatted_address, PA.name).city,
   postal_code |->
     ParseAddress(PA.formatted_address, PA.name).postal_code,
   last_updated |-> 0,
   g_raw |-> PA, g_looked |-> TRUE, g_recent |-> FALSE]

\* A location the external source does not know (any more).
RowD ==
  [id |-> 2, google_place_id |-> "ChIJ_d", name |-> "Jumbo Oud",
   latitude |-> 520, longitude |-> 50, status |-> "closed",
   address |-> ParseAddress(PD.formatted_address, PD.name).address,
   city |-> ParseAddress(PD.formatted_address, PD.name).city,
   postal_code |->
     ParseAddress(PD.formatted_address, PD.name).postal_code,
   last_updated |-> 0,
   g_raw |-> PD, g_looked |-> TRUE, g_recent |-> FALSE]

Procs == {1, 2}
MainProcs == {1}

IdleRun ==
  [pc |-> "idle", chainIdx |-> 1, pending |-> <<>>, converted |-> <<>>,
   allResults |-> <<>>, uniqueResults |-> <<>>, i |-> 0, k |-> 1,
   existingRecords |-> {}, newRecords |-> <<>>, updateRecords |-> <<>>,
   u |-> 1, totalInserted |-> 0, totalUpdated |-> 0, exitCode |-> -1,
   error |-> "",
   g_searched |-> <<>>, g_delays |-> 0, g_attempted |-> {},
   g_written |-> 0,
   g_rejected |-> {},
   g_clean |-> TRUE, g_base |-> {},
   g_store |-> {}, g_meta |-> {}, g_metaWritten |-> FALSE,
   g_before |-> {}]

\* What every initial state shares: nothing has run and nothing was read.
Fresh ==
  /\ sync_metadata = {NoMetadata}
  /\ run = [r \in Procs |-> IdleRun]
  /\ settled = {}
  /\ served = {}
  /\ reply = NoReply
  /\ localStorage = NoEntry
  /\ fetched = NoFetch

\* The columns of a row that are not timestamps (and not history fields).
Columns(s) ==
  [id |-> s.id, google_place_id |-> s.google_place_id, name |-> s.name,
   address |-> s.address, city |-> s.city, postal_code |-> s.postal_code,
   latitude |-> s.latitude, longitude |-> s.longitude, status |-> s.status]

StripStore(rows) == {Columns(s) : s \in rows}

\* ------------------------------------------------------- syncSupermarkets
\* node scripts/sync-supermarkets.js: the process starts; the credential
\* check throws when GOOGLE_PLACES_API_KEY is not set.
\* g_before: when the run before this one was terminated, the store as that
\* run (or the first of a row of terminated runs) found it.
StartRun(r) ==
  /\ run[r].pc \in {"idle", "done", "exited", "killed"}
  /\ runs < MaxRuns
  /\ runs' = runs + 1
  /\ LET before == IF run[r].pc # "killed" THEN {}
                   ELSE IF run[r].g_before # {} THEN run[r].g_before
                   ELSE {run[r].g_store}
     IN run' = [run EXCEPT ![r] =
          IF apiKey
          THEN [IdleRun EXCEPT !.pc = "connect", !.g_base = settled,
                               !.g_store = supermarkets,
                               !.g_meta = sync_metadata,
                               !.g_before = before]
          ELSE [IdleRun EXCEPT !.pc = "catch", !.g_base = settled,
                               !.g_store = supermarkets,
                               !.g_meta = sync_metadata,
                               !.g_before = before,
                               !.error = "Google Places API key is required"]]
  /\ UNCHANGED <<supermarkets, incidents, sync_metadata, ids, now, ext,
                 apiKey, settled, served, reply, localStorage, fetched>>

\* Test Supabase connection: select count ... limit 1.
TestConnection(r) ==
  /\ run[r].pc = "connect"
  /\ \E ok \in BOOLEAN :
       run' = [run EXCEPT ![r] =
         IF ok THEN [@ EXCEPT !.pc = "search"]
         ELSE [@ EXCEPT !.pc = "catch", !.g_clean = FALSE,
                        !.error = "Supabase connection failed"]]
  /\ UNCHANGED <<supermarkets, incidents, sync_metadata, ids, now, ext,
                 apiKey, runs, settled, served, reply, localStorage, fetched>>

InBounds(place) == isInNetherlands(place.lat, place.lng)

\* A chain's catch block that gives up the run instead of going on.
SearchFailedAbort(me, log) ==
  [me EXCEPT !.pc = "catch", !.g_searched = log,
             !.error = "Failed to search"]

\* catch (error) of one chain: log, then the next chain (no delay).
SearchFailed(me, log) ==
  [me EXCEPT !.chainIdx = me.chainIdx + 1, !.g_searched = log]

\* One turn of the chain loop up to its first await that reads the store:
\* searchPlacesByText; on a throw the catch logs and the loop goes on to the
\* next chain; otherwise the results are filtered to the bounding box.
Search(r) ==
  /\ run[r].pc = "search"
  /\ run[r].chainIdx <= Len(DUTCH_SUPERMARKET_CHAINS)
  /\ LET me == run[r]
         c == me.chainIdx
         answer == ext[c]
         log == Append(me.g_searched, c)
     IN run' = [run EXCEPT ![r] =
          IF ~answer.ok
          THEN SearchFailed(me, log)
          ELSE LET filteredResults == SelectSeq(answer.results, InBounds)
               IN IF filteredResults = <<>>
                  THEN [me EXCEPT !.pc = "delay", !.g_searched = log]
                  ELSE [me EXCEPT !.pc = "convert", !.g_searched = log,
                                  !.pending = filteredResults,
                                  !.converted = <<>>]]
  /\ UNCHANGED <<supermarkets, incidents, sync_metadata, ids, now, ext,
                 apiKey, runs, settled, served, reply, localStorage, fetched>>

\* convertToSupermarketData for the next filtered place (its store reads are
\* those of hasRecentIncidents); after the last one the chain's records are
\* pushed to allResults.
Convert(r) ==
  /\ run[r].pc = "convert"
  /\ \E rowOk \in BOOLEAN, incOk \in BOOLEAN :
       LET me == run[r]
           place == Head(me.pending)
           convertedPlace == convertToSupermarketData(place, rowOk, incOk)
           converted == Append(me.converted, convertedPlace)
           rest == Tail(me.pending)
       IN run' = [run EXCEPT ![r] =
            IF rest = <<>>
            THEN [me EXCEPT !.pc = "delay", !.pending = <<>>,
                            !.converted = <<>>,
                            !.allResults = me.allResults \o converted]
            ELSE [me EXCEPT !.pending = rest, !.converted = converted]]
  /\ UNCHANGED <<supermarkets, incidents, sync_metadata, ids, now, ext,
                 apiKey, runs, settled, served, reply, localStorage, fetched>>

\* Rate limiting: wait 200ms between requests, then the next chain.
Delay(r) ==
  /\ run[r].pc = "delay"
  /\ run' = [run EXCEPT ![r] = [@ EXCEPT !.pc = "search",
                                         !.chainIdx = @ + 1,
                                         !.g_delays = @ + 1]]
  /\ UNCHANGED <<supermarkets, incidents, sync_metadata, ids, now, ext,
                 apiKey, runs, settled, served, reply, localStorage, fetched>>

\* After the loop: return when nothing was fetched, else deduplicate and
\* enter upsertSupermarkets.
Dedupe(r) ==
  /\ run[r].pc = "search"
  /\ run[r].chainIdx > Len(DUTCH_SUPERMARKET_CHAINS)
  /\ LET me == run[r]
     IN IF me.allResults = <<>>
        THEN /\ run' = [run EXCEPT ![r] = [me EXCEPT !.pc = "done",
                                                     !.exitCode = 0]]
             /\ settled' = IF me.g_clean THEN {StripStore(supermarkets)}
                           ELSE {}
        ELSE /\ run' = [run EXCEPT ![r] =
                  [me EXCEPT !.pc = "lookup",
                             !.uniqueResults =
                                deduplicateResults(me.allResults),
                             !.i = 0, !.k = 1, !.existingRecords = {}]]
             /\ UNCHANGED settled
  /\ UNCHANGED <<supermarkets, incidents, sync_metadata, ids, now, ext,
                 apiKey, runs, served, reply, localStorage, fetched>>

\* The records of the current batch: supermarkets.slice(i, i + batchSize).
Batch(me) ==
  SubSeq(me.uniqueResults, me.i + 1,
         Min(me.i + batchSize, Len(me.uniqueResults)))

\* Where the run goes when a batch is finished: the next batch, or out of
\* upsertSupermarkets to the metadata update.
AfterBatch(me) ==
  IF me.i + batchSize < Len(me.uniqueResults)
  THEN [me EXCEPT !.pc = "lookup", !.i = me.i + batchSize, !.k = 1,
                  !.existingRecords = {}, !.newRecords = <<>>,
                  !.updateRecords = <<>>, !.u = 1]
  ELSE [me EXCEPT !.pc = "metadata", !.existingRecords = {},
                  !.newRecords = <<>>, !.updateRecords = <<>>, !.u = 1]

\* existingRecords.set(google_place_id, data[0])
MapSet(map, key, row) ==
  {e \in map : e.google_place_id # key}
    \cup {[google_place_id |-> key, id |-> row.id]}

MapHas(map, key) == \E e \in map : e.google_place_id = key
MapGet(map, key) == CHOOSE e \in map : e.google_place_id = key

\* Check for an existing record by Google Place ID, for the k-th record of
\* the batch.  The select's error is not looked at: no data, no entry.
Lookup(r) ==
  /\ run[r].pc = "lookup"
  /\ run[r].k <= Len(Batch(run[r]))
  /\ LET me == run[r]
         supermarket == Batch(me)[me.k]
         g == supermarket.google_place_id
     IN IF g = ""
        THEN run' = [run EXCEPT ![r] = [me EXCEPT !.k = me.k + 1]]
        ELSE \/ \E row \in RowsByPlaceId(g) :
                  run' = [run EXCEPT ![r] =
                    [me EXCEPT !.k = me.k + 1,
                               !.existingRecords = MapSet(@, g, row)]]
             \/ /\ RowsByPlaceId(g) = {}
                /\ run' = [run EXCEPT ![r] = [me EXCEPT !.k = me.k + 1]]
             \/ run' = [run EXCEPT ![r] =
                  [me EXCEPT !.k = me.k + 1, !.g_clean = FALSE]]
  /\ UNCHANGED <<supermarkets, incidents, sync_metadata, ids, now, ext,
                 apiKey, runs, settled, served, reply, localStorage, fetched>>

IsNew(me, supermarket) ==
  ~MapHas(me.existingRecords, supermarket.google_place_id)

\* Separate new records from updates.
NewRecords(me) == SelectSeq(Batch(me), LAMBDA s : IsNew(me, s))

UpdateRecords(me) ==
  LET old == SelectSeq(Batch(me), LAMBDA s : ~IsNew(me, s))
  IN [j \in 1..Len(old) |->
        [id |-> MapGet(me.existingRecords, old[j].google_place_id).id,
         record |-> old[j]]]

\* idx_supermarkets_google_place_id: the records of one insert statement
\* that the unique index on the non-null google_place_id refuses.
\* The store without its unique index: no record is refused for its id.
UniqueViolationsNone(records) == {}

UniqueViolations(records) ==
  {j \in 1..Len(records) :
     /\ records[j].google_place_id # ""
     /\ \/ RowsByPlaceId(records[j].google_place_id) # {}
        \/ \E j2 \in 1..Len(records) :
              /\ j2 # j
              /\ records[j2].google_place_id = records[j].google_place_id}

\* The row an insert makes of a record (id and last_updated by default; the
\* created_at column, which nothing reads, is left out of the model).
NewRow(record, id) ==
  [id |-> id, google_place_id |-> record.google_place_id,
   name |-> record.name, address |-> record.address,
   city |-> record.city, postal_code |-> record.postal_code,
   latitude |-> record.latitude,
   longitude |-> record.longitude, status |-> record.status,
   last_updated |-> now,
   g_raw |-> record.g_raw, g_looked |-> record.g_looked,
   g_recent |-> record.g_recent]

\* The row an update ... .eq('id', id) makes of a row (the trigger sets
\* last_updated).
UpdatedRow(s, record) ==
  [s EXCEPT !.google_place_id = record.google_place_id,
            !.name = record.name, !.address = record.address,
            !.city = record.city, !.postal_code = record.postal_code,
            !.latitude = record.latitude,
            !.longitude = record.longitude, !.status = record.status,
            !.last_updated = now,
            !.g_raw = record.g_raw, !.g_looked = record.g_looked,
            !.g_recent = record.g_recent]

\* The update without its .eq('id', record.id) filter.
UpdateEveryRow(rows, id, record) == {UpdatedRow(s, record) : s \in rows}

UpdateById(rows, id, record) ==
  {IF s.id = id THEN UpdatedRow(s, record) ELSE s : s \in rows}

\* The batch is split and the new records are inserted by one statement,
\* which the store applies as a whole or not at all; refused is the set of
\* records the store rejects.
Insert(r) ==
  /\ run[r].pc = "lookup"
  /\ run[r].k > Len(Batch(run[r]))
  /\ LET me == run[r]
         newRecords == NewRecords(me)
         updateRecords == UpdateRecords(me)
         next == [me EXCEPT !.newRecords = newRecords,
                            !.updateRecords = updateRecords, !.u = 1]
         go(rr) == IF updateRecords = <<>> THEN AfterBatch(rr)
                   ELSE [rr EXCEPT !.pc = "update"]
     IN IF newRecords = <<>>
        THEN /\ run' = [run EXCEPT ![r] = go(next)]
             /\ UNCHANGED <<supermarkets, ids>>
        ELSE \E refused \in SUBSET (1..Len(newRecords)) :
               /\ UniqueViolations(newRecords) \subseteq refused
               /\ IF refused = {}
                  THEN /\ supermarkets' = supermarkets \cup
                            {NewRow(newRecords[j], ids.sup + j - 1) :
                               j \in 1..Len(newRecords)}
                       /\ ids' = [ids EXCEPT !.sup = @ + Len(newRecords)]
                       /\ run' = [run EXCEPT ![r] = go(
                            [next EXCEPT
                               !.totalInserted = @ + Len(newRecords),
                               !.g_written = @ + Len(newRecords),
                               !.g_attempted = @ \cup Range(newRecords)])]
                  ELSE /\ UNCHANGED <<supermarkets, ids>>
                       /\ run' = [run EXCEPT ![r] = go(
                            [next EXCEPT
                               !.g_clean = FALSE,
                               !.g_attempted = @ \cup Range(newRecords),
                               !.g_rejected = @ \cup
                                  {newRecords[j] : j \in refused}])]
  /\ UNCHANGED <<incidents, sync_metadata, now, ext, apiKey, runs, settled,
                 served, reply, localStorage, fetched>>

\* Update existing records, one statement per record; a failed update is
\* logged and the loop goes on.
Update(r) ==
  /\ run[r].pc = "update"
  /\ LET me == run[r]
         rec == me.updateRecords[me.u]
         step(rr) == IF me.u = Len(me.updateRecords) THEN AfterBatch(rr)
                     ELSE [rr EXCEPT !.u = me.u + 1]
     IN \E ok \in BOOLEAN :
          IF ok
          THEN /\ supermarkets' = UpdateById(supermarkets, rec.id, rec.record)
               /\ run' = [run EXCEPT ![r] = step(
                    [me EXCEPT !.totalUpdated = @ + 1,
                               !.g_written = @ + Cardinality(
                                  {s \in supermarkets : s.id = rec.id}),
                               !.g_attempted = @ \cup {rec.record}])]
          ELSE /\ UNCHANGED supermarkets
               /\ run' = [run EXCEPT ![r] = step(
                    [me EXCEPT !.g_clean = FALSE,
                               !.g_attempted = @ \cup {rec.record},
                               !.g_rejected = @ \cup {rec.record}])]
  /\ UNCHANGED <<incidents, sync_metadata, ids, now, ext, apiKey, runs,
                 settled, served, reply, localStorage, fetched>>

Success(me, m) ==
  [m EXCEPT !.last_sync = now,
            !.total_locations = me.totalInserted + me.totalUpdated,
            !.status = "success", !.error_message = "null"]

\* The error update, had it also reset last_sync and total_locations.
FailureOverwrite(me, m) ==
  [m EXCEPT !.last_sync = now, !.total_locations = 0, !.status = "error",
            !.error_message = me.error]

Failure(me, m) == [m EXCEPT !.status = "error", !.error_message = me.error]

\* The success update as an insert: the old row stays and a new one is added.
MetadataSuccessAppend(me) ==
  sync_metadata \cup {Success(me, m) : m \in sync_metadata}

\* update sync_metadata ... .eq('id', 1)
MetadataSuccess(me) ==
  {IF m.id = 1 THEN Success(me, m) ELSE m : m \in sync_metadata}

MetadataError(me) ==
  {IF m.id = 1 THEN Failure(me, m) ELSE m : m \in sync_metadata}

\* Update sync metadata after the upsert; the statement's error, if any, is
\* not looked at.
Metadata(r) ==
  /\ run[r].pc = "metadata"
  /\ LET me == run[r]
     IN \E ok \in BOOLEAN :
          /\ sync_metadata' =
               IF ok THEN MetadataSuccess(me)
               ELSE sync_metadata
          /\ run' = [run EXCEPT ![r] =
               [me EXCEPT !.pc = "done", !.exitCode = 0,
                          !.g_clean = me.g_clean /\ ok,
                          !.g_metaWritten = ok]]
          /\ settled' = IF me.g_clean /\ ok THEN {StripStore(supermarkets)}
                        ELSE {}
  /\ UNCHANGED <<supermarkets, incidents, ids, now, ext, apiKey, runs,
                 served, reply, localStorage, fetched>>

\* catch (error): update sync metadata with the error, process.exit(1).
Catch(r) ==
  /\ run[r].pc = "catch"
  /\ LET me == run[r]
     IN \E ok \in BOOLEAN :
          /\ sync_metadata' =
               IF ok THEN MetadataError(me)
               ELSE sync_metadata
          /\ run' = [run EXCEPT ![r] =
               [me EXCEPT !.pc = "exited", !.exitCode = 1,
                          !.g_clean = FALSE, !.g_metaWritten = ok]]
  /\ settled' = {}
  /\ UNCHANGED <<supermarkets, incidents, ids, now, ext, apiKey, runs,
                 served, reply, localStorage, fetched>>

\* The process is terminated (a signal, the end of the job's time) between
\* two statements on the store: nothing more is written, the metadata
\* included.
Interrupt(r) ==
  /\ run[r].pc \notin {"idle", "done", "exited", "killed"}
  /\ run' = [run EXCEPT ![r] = [@ EXCEPT !.pc = "killed",
                                         !.g_clean = FALSE]]
  /\ settled' = {}
  /\ UNCHANGED <<supermarkets, incidents, sync_metadata, ids, now, ext,
                 apiKey, runs, served, reply, localStorage, fetched>>

Reconciler(r) ==
  \/ StartRun(r)
  \/ TestConnection(r)
  \/ Search(r)
  \/ Convert(r)
  \/ Delay(r)
  \/ Dedupe(r)
  \/ Lookup(r)
  \/ Insert(r)
  \/ Update(r)
  \/ Metadata(r)
  \/ Catch(r)

\* ------------------------------------------------------- databaseService
\* What makes the store refuse the insert of reportIncident: the foreign
\* key wants an existing location, the CHECKs a known kind and priority.
InsertViolation(form) ==
  \/ form.supermarket_id \notin {s.id : s \in supermarkets}
  \/ form.incident_type \notin DbIncidentTypes
  \/ (IF form.priority = "undefined" THEN "medium" ELSE form.priority)
       \notin Priorities

\* reportIncident(incident): insert into supermarket_incidents ...
\* .select('id').single(); priority is incident.priority || 'medium', status
\* defaults to 'open', created_at to NOW().  An error is thrown.
ReportIncident(caller, defaults, form) ==
  /\ ids.inc <= MaxIncidents
  /\ LET allowed == /\ Granted(caller, "supermarket_incidents", "INSERT",
                               defaults)
                    /\ PolicyAllows(caller, "supermarket_incidents", "INSERT")
         error == IF ~allowed THEN "permission denied"
                  ELSE IF InsertViolation(form) THEN "violates constraint"
                  ELSE "null"
         priority == IF form.priority = "undefined" THEN "medium"
                     ELSE form.priority
     IN IF error = "null"
        THEN /\ incidents' = incidents \cup
                  {IncidentRow(ids.inc, form.supermarket_id,
                               form.incident_type, priority, form.reporter,
                               "open", now)}
             /\ ids' = [ids EXCEPT !.inc = @ + 1]
             /\ settled' = {}
             /\ reply' = Reply("reportIncident", caller, "null", <<ids.inc>>)
        ELSE /\ reply' = Reply("reportIncident", caller, error, <<>>)
             /\ UNCHANGED <<incidents, ids, settled>>
  /\ UNCHANGED <<supermarkets, sync_metadata, now, ext, apiKey, runs, run,
                 served, localStorage, fetched>>

\* updateIncident(incidentId, updates): update(updates).eq('id', incidentId)
\* .select().single().  The statement needs the UPDATE privilege; the
\* policies decide which of the matching rows it sees; the trigger runs for
\* every row it is about to change; .single() answers an error unless
\* exactly one row comes back.  An error is thrown.
UpdateIncident(caller, defaults, incidentId, field, value) ==
  /\ LET matched == {i \in incidents : i.id = incidentId}
         visible ==
           IF PolicyAllows(caller, "supermarket_incidents", "UPDATE")
           THEN matched ELSE {}
         error ==
           IF ~Granted(caller, "supermarket_incidents", "UPDATE", defaults)
           THEN "permission denied"
           ELSE IF visible # {} /\ IncidentTriggerRaises
           THEN "record new has no field"
           ELSE IF Cardinality(visible) # 1
           THEN "no rows returned"
           ELSE "null"
     IN IF error = "null"
        THEN /\ incidents' = (incidents \ visible) \cup
                  {[i EXCEPT ![field] = value] : i \in visible}
             /\ settled' = {}
             /\ reply' = Reply("updateIncident", caller, "null",
                               <<incidentId>>)
        ELSE /\ reply' = Reply("updateIncident", caller, error, <<>>)
             /\ UNCHANGED <<incidents, settled>>
  /\ UNCHANGED <<supermarkets, sync_metadata, ids, now, ext, apiKey, runs,
                 run, served, localStorage, fetched>>

\* get_admin_dashboard_stats counting as resolved the incidents with status
\* 'resolved' only.
DashboardStatsResolvedOnly ==
  <<Cardinality(supermarkets),
    Cardinality(incidents),
    Cardinality({i \in incidents : i.status \in {"open", "investigating"}}),
    Cardinality({i \in incidents : i.status \in {"resolved"}})>>

\* The body of get_admin_dashboard_stats: the four counts.
DashboardStats ==
  <<Cardinality(supermarkets),
    Cardinality(incidents),
    Cardinality({i \in incidents : i.status \in {"open", "investigating"}}),
    Cardinality({i \in incidents : i.status \in {"resolved", "closed"}})>>

\* getAdminDashboardStats: rpc('get_admin_dashboard_stats'), a SECURITY
\* DEFINER function: after its own test of the caller it reads the tables
\* with its owner's rights.  (EXECUTE is granted to authenticated and
\* service_role; a role without it is refused before the test.)
GetAdminDashboardStats(caller) ==
  /\ reply' =
       IF AccessDenied(caller)
       THEN Reply("getAdminDashboardStats", caller, "Access denied", <<>>)
       ELSE Reply("getAdminDashboardStats", caller, "null", DashboardStats)
  /\ UNCHANGED <<supermarkets, incidents, sync_metadata, ids, now, ext,
                 apiKey, runs, run, settled, served, localStorage, fetched>>

\* bulk_resolve_incidents(incident_ids, admin_note): the rows its UPDATE
\* leaves when it goes through (admin_notes = COALESCE(admin_note,
\* admin_notes)).
BulkResolved(rows, incident_ids, admin_note) ==
  {IF i.id \in incident_ids /\ i.status # "resolved"
   THEN [i EXCEPT !.status = "resolved",
                  !.admin_notes = IF admin_note = "null" THEN @
                                  ELSE admin_note]
   ELSE i : i \in rows}

\* bulkResolveIncidents: rpc('bulk_resolve_incidents'), SECURITY DEFINER:
\* the test of the caller, then the UPDATE of the incidents of the set that
\* are not resolved, on each of which the trigger runs, then ROW_COUNT.
BulkResolve(caller, incident_ids, admin_note) ==
  /\ LET matched == {i \in incidents :
                       i.id \in incident_ids /\ i.status # "resolved"}
         error == IF AccessDenied(caller) THEN "Access denied"
                  ELSE IF matched # {} /\ IncidentTriggerRaises
                  THEN "record new has no field"
                  ELSE "null"
     IN IF error = "null"
        THEN /\ incidents' = BulkResolved(incidents, incident_ids,
                                          admin_note)
             /\ settled' = IF matched = {} THEN settled ELSE {}
             /\ reply' = Reply("bulkResolveIncidents", caller, "null",
                               <<Cardinality(matched)>>)
        ELSE /\ reply' = Reply("bulkResolveIncidents", caller, error, <<>>)
             /\ UNCHANGED <<incidents, settled>>
  /\ UNCHANGED <<supermarkets, sync_metadata, ids, now, ext, apiKey, runs,
                 run, served, localStorage, fetched>>

\* A record of the list given to bulkUpdateSupermarkets.
Imported ==
  [name |-> "Jumbo Import", address |-> "Kade 2", city |-> "Ede",
   postalCode |-> "1234 AB", latitude |-> 520, longitude |-> 50,
   status |-> "open"]

\* The row bulkUpdateSupermarkets inserts for a record: no google_place_id;
\* its history fields say that it was not normalized from a search result.
ImportedRow(rec, id) ==
  [id |-> id, google_place_id |-> "", name |-> rec.name,
   address |-> rec.address, city |-> rec.city,
   postal_code |-> rec.postalCode,
   latitude |-> rec.latitude, longitude |-> rec.longitude,
   status |-> rec.status, last_updated |-> now,
   g_raw |-> Place("", rec.name, rec.latitude, rec.longitude, "OPERATIONAL",
                   "undefined"),
   g_looked |-> FALSE, g_recent |-> FALSE]

\* ON DELETE CASCADE: the incidents that are left when rows of supermarkets
\* are deleted.
Cascade(rows, deleted) ==
  {i \in rows : i.supermarket_id \notin {s.id : s \in deleted}}

\* bulkUpdateSupermarkets(supermarkets): delete every row the caller may
\* delete (an error of the delete is thrown), insert the list, one
\* statement per batch of 100 (an error is thrown, the delete stays done),
\* then update sync_metadata, whose result is not looked at.
BulkUpdateSupermarkets(caller, defaults, data) ==
  /\ ids.sup + Len(data) <= MaxRowId + 1
  /\ LET may(table, cmd) == /\ Granted(caller, table, cmd, defaults)
                            /\ PolicyAllows(caller, table, cmd)
         deleted == IF PolicyAllows(caller, "supermarkets", "DELETE")
                    THEN supermarkets ELSE {}
         inserted == {ImportedRow(data[j], ids.sup + j - 1) :
                        j \in 1..Len(data)}
     IN IF ~Granted(caller, "supermarkets", "DELETE", defaults)
        THEN /\ reply' = Reply("bulkUpdateSupermarkets", caller,
                               "Failed to clear existing data", <<>>)
             /\ UNCHANGED <<supermarkets, incidents, sync_metadata, ids,
                            settled>>
        ELSE IF data # <<>> /\ ~may("supermarkets", "INSERT")
        THEN /\ supermarkets' = supermarkets \ deleted
             /\ incidents' = Cascade(incidents, deleted)
             /\ settled' = {}
             /\ reply' = Reply("bulkUpdateSupermarkets", caller,
                               "Failed to insert batch", <<>>)
             /\ UNCHANGED <<sync_metadata, ids>>
        ELSE /\ supermarkets' = (supermarkets \ deleted) \cup inserted
             /\ incidents' = Cascade(incidents, deleted)
             /\ ids' = [ids EXCEPT !.sup = @ + Len(data)]
             /\ sync_metadata' =
                  IF may("sync_metadata", "UPDATE")
                  THEN {IF m.id = 1
                        THEN [m EXCEPT !.last_sync = now,
                                       !.total_locations = Len(data),
                                       !.status = "success",
                                       !.error_message = "null"]
                        ELSE m : m \in sync_metadata}
                  ELSE sync_metadata
             /\ settled' = {}
             /\ reply' = Reply("bulkUpdateSupermarkets", caller, "null",
                               <<Len(data)>>)
  /\ UNCHANGED <<now, ext, apiKey, runs, run, served, localStorage, fetched>>

\* fetchSupermarkets: the status served for one joined row.
FetchStatus(row, joined) ==
  LET activeIncidents ==
        {i \in joined : i.status = "open" \/ i.status = "investigating"}
  IN IF activeIncidents # {} THEN "closed" ELSE row.status

IncidentsOf(row) == {i \in incidents : i.supermarket_id = row.id}

\* What fetchSupermarkets returns.
SupermarketData ==
  {[id |-> row.id, status |-> FetchStatus(row, IncidentsOf(row))] :
     row \in supermarkets}

FetchSupermarkets ==
  /\ served' = SupermarketData
  /\ UNCHANGED <<supermarkets, incidents, sync_metadata, ids, now, ext,
                 apiKey, runs, run, settled, reply, localStorage, fetched>>

\* ---------------------------------------------------------- placesService
\* setCachedData(data); stored: localStorage.setItem did not throw.
setCachedData(storage, data, stored) ==
  IF stored THEN CachedData(now, data) ELSE storage

\* fetchAllSupermarkets(forceRefresh): the cache unless forceRefresh, then
\* the pre-synced files (file: one of them answers with a non-empty array),
\* then the database (available: isAvailable() and fetchSupermarkets does
\* not throw), else an error.
FetchAllSupermarkets(forceRefresh, file, available, stored) ==
  LET cached == getCachedData
      storage == IF forceRefresh THEN localStorage ELSE cached.storage
      dbData == SupermarketData
  IN IF ~forceRefresh /\ cached.found
     THEN /\ fetched' = Fetched("fetchAllSupermarkets", forceRefresh,
                                "cache", cached.data)
          /\ localStorage' = storage
          /\ UNCHANGED served
     ELSE IF file
     THEN /\ fetched' = Fetched("fetchAllSupermarkets", forceRefresh,
                                "file", SyncedData)
          /\ localStorage' = setCachedData(storage, SyncedData, stored)
          /\ UNCHANGED served
     ELSE IF available
     THEN /\ served' = dbData
          /\ IF dbData # {}
             THEN /\ fetched' = Fetched("fetchAllSupermarkets", forceRefresh,
                                        "database", dbData)
                  /\ localStorage' = setCachedData(storage, dbData, stored)
             ELSE /\ fetched' = Fetched("fetchAllSupermarkets", forceRefresh,
                                        "error", {})
                  /\ localStorage' = storage
     ELSE /\ fetched' = Fetched("fetchAllSupermarkets", forceRefresh,
                                "error", {})
          /\ localStorage' = storage
          /\ UNCHANGED served

FetchAll ==
  /\ \E forceRefresh \in BOOLEAN, file \in BOOLEAN, available \in BOOLEAN,
        stored \in BOOLEAN :
       FetchAllSupermarkets(forceRefresh, file, available, stored)
  /\ UNCHANGED <<supermarkets, incidents, sync_metadata, ids, now, ext,
                 apiKey, runs, run, settled, reply>>

\* getCacheInfo(): hasCache false (from "error") or the item count of the
\* cached data.
GetCacheInfo ==
  /\ LET cached == getCachedData
     IN /\ fetched' = IF cached.found
                      THEN Fetched("getCacheInfo", FALSE, "cache",
                                   cached.data)
                      ELSE Fetched("getCacheInfo", FALSE, "error", {})
        /\ localStorage' = cached.storage
  /\ UNCHANGED <<supermarkets, incidents, sync_metadata, ids, now, ext,
                 apiKey, runs, run, settled, served, reply>>

\* clearCache()
ClearCache ==
  /\ localStorage' = NoEntry
  /\ fetched' = Fetched("clearCache", FALSE, "none", {})
  /\ UNCHANGED <<supermarkets, incidents, sync_metadata, ids, now, ext,
                 apiKey, runs, run, settled, served, reply>>

\* Time passes.
Tick ==
  /\ now + TickHours <= MaxTime
  /\ now' = now + TickHours
  /\ UNCHANGED <<supermarkets, incidents, sync_metadata, ids, ext, apiKey,
                 runs, run, settled, served, reply, localStorage, fetched>>

\* ---------------------------------------------------------- specifications
\* The reconciler alone, against every scenario of external answers, over a
\* store that is empty and never synced, or that earlier runs (counted in
\* runs) have synced.
InitSync ==
  /\ Fresh
  /\ \/ supermarkets = {} /\ runs = 0
     \/ supermarkets = {RowA, RowD} /\ runs = MaxRuns - 1
  /\ incidents = {}
  /\ ids = [sup |-> 3, inc |-> 1]
  /\ now = TickHours
  /\ ext \in ExtScenarios
  /\ apiKey \in BOOLEAN

NextSync == \E r \in MainProcs : Reconciler(r)

SpecSync == InitSync /\ [][NextSync]_vars

\* The reconciler, the reports of incidents by the public, the read API and
\* the clock, over a store that holds a synced location.  (No update of an
\* incident goes through, see IncidentTriggerRaises, so that the calls that
\* update incidents change nothing of what these operations read; they are
\* part of SpecAdmin.)
IncidentScenarios ==
  { <<Ok(<<PA>>), Err, Ok(<<PX, PA>>)>>,
    <<Ok(<<>>), Ok(<<PAc>>), Ok(<<>>)>> }

Init ==
  /\ Fresh
  /\ supermarkets = {RowA}
  /\ runs = MaxRuns - 1
  /\ incidents = {}
  /\ ids = [sup |-> 2, inc |-> 1]
  /\ now = 0
  /\ ext \in IncidentScenarios
  /\ apiKey = TRUE

Next ==
  \/ \E r \in MainProcs : Reconciler(r)
  \/ \E s \in supermarkets :
       ReportIncident(Anon, FALSE,
                      Form(s.id, "machine_broken", "undefined", "null"))
  \/ FetchSupermarkets
  \/ Tick

Spec == Init /\ [][Next]_vars

\* The resolver: one run that normalizes and stores one place, for every
\* closure flag, opening-hours flag and presence of the external id, over a
\* store whose location has any incidents, and the read API.
ProbePlaces ==
  {Place(id, "Albert Heijn Centrum", 523, 49, bs, on) :
     id \in {"ChIJ_a", ""}, bs \in BusinessStatuses, on \in OpenNow}

Times == {t \in 0..MaxTime : t % TickHours = 0}

InitResolver ==
  /\ Fresh
  /\ supermarkets = {RowA}
  /\ runs = MaxRuns - 1
  /\ \E n \in 0..MaxIncidents :
       \E st \in [1..n -> IncidentStatuses], at \in [1..n -> Times] :
         /\ incidents = {IncidentRow(j, 1, "machine_broken", "medium",
                                      "null", st[j], at[j]) : j \in 1..n}
         /\ ids = [sup |-> 2, inc |-> n + 1]
  /\ now = MaxTime
  /\ \E p \in ProbePlaces : ext = <<Ok(<<p>>), Ok(<<>>), Ok(<<>>)>>
  /\ apiKey = TRUE

NextResolver ==
  \/ \E r \in MainProcs : Reconciler(r)
  \/ FetchSupermarkets

SpecResolver == InitResolver /\ [][NextResolver]_vars

\* The incident and admin calls of the service and its bulk replacement of
\* the locations, by every kind of caller, over a store with two locations
\* and any incidents of any status.
InitAdmin ==
  /\ Fresh
  /\ supermarkets = {RowA, RowD}
  /\ runs = MaxRuns
  /\ \E n \in 0..MaxStored : \E st \in [1..n -> IncidentStatuses] :
       /\ incidents = {IncidentRow(j, 1 + (j % 2), "machine_broken",
                                   "medium", "null", st[j], 0) : j \in 1..n}
       /\ ids = [sup |-> 3, inc |-> n + 1]
  /\ now = TickHours
  /\ ext = <<Err, Err, Err>>
  /\ apiKey = TRUE

NextAdmin ==
  \E caller \in Callers :
    \/ \E defaults \in BOOLEAN :
         \/ \E s \in supermarkets, kind \in AppIncidentTypes,
               given \in {<<"undefined", "null">>,
                          <<"high", "jan@example.nl">>} :
              ReportIncident(caller, defaults,
                             Form(s.id, kind, given[1], given[2]))
         \/ \E i \in incidents :
              \/ \E st \in IncidentStatuses :
                   UpdateIncident(caller, defaults, i.id, "status", st)
              \/ UpdateIncident(caller, defaults, i.id, "priority", "urgent")
              \/ UpdateIncident(caller, defaults, i.id, "admin_notes",
                                "seen")
         \/ \E data \in {<<>>, <<Imported>>} :
              BulkUpdateSupermarkets(caller, defaults, data)
    \/ \E incident_ids \in SUBSET {i.id : i \in incidents},
          admin_note \in {"null", "fixed"} :
         BulkResolve(caller, incident_ids, admin_note)
    \/ GetAdminDashboardStats(caller)

SpecAdmin == InitAdmin /\ [][NextAdmin]_vars

\* The reconciler, terminated at any point of any run, over a store that is
\* empty or synced; among the places found is one without an external id.
InterruptScenarios ==
  { <<Ok(<<PN>>), Ok(<<PA>>), Err>>,
    <<Ok(<<PA, PB>>), Ok(<<PB, PC>>), Ok(<<>>)>> }

InitInterrupt ==
  /\ Fresh
  /\ \/ supermarkets = {} /\ ids = [sup |-> 1, inc |-> 1]
     \/ supermarkets = {RowA, RowD} /\ ids = [sup |-> 3, inc |-> 1]
  /\ runs = 0
  /\ incidents = {}
  /\ now = TickHours
  /\ ext \in InterruptScenarios
  /\ apiKey = TRUE

NextInterrupt == \E r \in MainProcs : Reconciler(r) \/ Interrupt(r)

SpecInterrupt == InitInterrupt /\ [][NextInterrupt]_vars

\* The browser: the calls of placesService and the clock, over a store that
\* is empty or holds a location, starting with every kind of cache item, the
\* entries written at time 0 or half a tick before.
InitCache ==
  /\ sync_metadata = {NoMetadata}
  /\ run = [r \in Procs |-> IdleRun]
  /\ settled = {}
  /\ served = {}
  /\ reply = NoReply
  /\ fetched = NoFetch
  /\ supermarkets \in {{}, {RowA}}
  /\ runs = MaxRuns
  /\ incidents = {}
  /\ ids = [sup |-> 2, inc |-> 1]
  /\ now = 0
  /\ ext = <<Err, Err, Err>>
  /\ apiKey = TRUE
  /\ localStorage \in
       {NoEntry, Unparsable, NoTimestamp(SyncedData)}
         \cup {CachedData(t, SyncedData) : t \in {0 - (TickHours \div 2), 0}}

NextCache ==
  \/ FetchAll
  \/ GetCacheInfo
  \/ ClearCache
  \/ Tick

SpecCache == InitCache /\ [][NextCache]_vars

\* Two runs at once: both have made the same searches, got the same answers
\* and normalized them, and go through deduplication, upsert and metadata
\* update in any interleaving of their steps, over a store that is empty or
\* synced.
OverlapBatches ==
  {[j \in 1..Len(places) |->
      Normalized(places[j],
                 determineStatus(places[j], places[j].place_id, FALSE),
                 TRUE, FALSE)] :
     places \in {<<PN, PA>>, <<PA, PB, PC>>}}

InitOverlap ==
  /\ sync_metadata = {NoMetadata}
  /\ settled = {}
  /\ served = {}
  /\ reply = NoReply
  /\ localStorage = NoEntry
  /\ fetched = NoFetch
  /\ \/ supermarkets = {} /\ ids = [sup |-> 1, inc |-> 1]
     \/ supermarkets = {RowA, RowD} /\ ids = [sup |-> 3, inc |-> 1]
  /\ runs = MaxRuns
  /\ incidents = {}
  /\ now = TickHours
  /\ ext = <<Err, Err, Err>>
  /\ apiKey = TRUE
  /\ \E batch \in OverlapBatches :
       run = [r \in Procs |->
                [IdleRun EXCEPT
                   !.pc = "search",
                   !.chainIdx = Len(DUTCH_SUPERMARKET_CHAINS) + 1,
                   !.g_searched = <<1, 2, 3>>,
                   !.g_delays = 3,
                   !.g_store = supermarkets,
                   !.g_meta = sync_metadata,
                   !.allResults = batch]]

NextOverlap ==
  \E r \in Procs :
    \/ Dedupe(r)
    \/ Lookup(r)
    \/ Insert(r)
    \/ Update(r)
    \/ Metadata(r)

SpecOverlap == InitOverlap /\ [][NextOverlap]_vars

\* A run at its upsert while the locations are replaced in bulk: the run has
\* made its searches over a synced store, and bulkUpdateSupermarkets is
\* called, with the service key or by an admin, between any two of its
\* statements.
InitReplace ==
  /\ sync_metadata = {NoMetadata}
  /\ settled = {}
  /\ served = {}
  /\ reply = NoReply
  /\ localStorage = NoEntry
  /\ fetched = NoFetch
  /\ supermarkets = {RowA, RowD}
  /\ ids = [sup |-> 3, inc |-> 1]
  /\ runs = MaxRuns
  /\ incidents = {}
  /\ now = TickHours
  /\ ext = <<Err, Err, Err>>
  /\ apiKey = TRUE
  /\ \E batch \in OverlapBatches :
       run = [r \in Procs |->
                IF r \in MainProcs
                THEN [IdleRun EXCEPT
                        !.pc = "search",
                        !.chainIdx = Len(DUTCH_SUPERMARKET_CHAINS) + 1,
                        !.g_searched = <<1, 2, 3>>,
                        !.g_delays = 3,
                        !.g_store = supermarkets,
                        !.g_meta = sync_metadata,
                        !.allResults = batch]
                ELSE IdleRun]

NextReplace ==
  \/ \E r \in MainProcs :
       \/ Dedupe(r)
       \/ Lookup(r)
       \/ Insert(r)
       \/ Update(r)
       \/ Metadata(r)
  \/ \E caller \in {Admin, Service}, data \in {<<>>, <<Imported>>} :
       BulkUpdateSupermarkets(caller, FALSE, data)

SpecReplace == InitReplace /\ [][NextReplace]_vars

\* The normalizer's address parsing: two runs over a store that starts
\* empty, for one place whose formatted_address is 'street, postal code
\* city, country' in every combination of the parts below.
AddressStreets == {"Dorpsstraat 12", "Winkelhof, Kade 3a", "Laan 1945 NL"}
AddressCodes == {<<"1234", "AB">>, <<"9000", "ZX">>}
AddressCities == {"Voorbeeldstad", "Den Haag", "Ede"}

AddressCountries == {"Netherlands", "Nederland", "The Netherlands"}

\* The addresses, each with the parts it was put together from.
AddressCases ==
  {[formatted_address |->
      street \o ", " \o code[1] \o sp \o code[2] \o " " \o city \o ", "
        \o country,
    street |-> street, postal_code |-> code[1] \o sp \o code[2],
    city |-> city, country |-> country] :
     street \in AddressStreets, code \in AddressCodes, sp \in {"", " "},
     city \in AddressCities, country \in AddressCountries}

InitAddress ==
  /\ Fresh
  /\ supermarkets = {}
  /\ runs = 0
  /\ incidents = {}
  /\ ids = [sup |-> 1, inc |-> 1]
  /\ now = TickHours
  /\ \E case \in AddressCases :
       ext = <<Ok(<<PlaceAt(PB, case.formatted_address)>>), Ok(<<>>), Err>>
  /\ apiKey = TRUE

NextAddress == \E r \in MainProcs : Reconciler(r)

SpecAddress == InitAddress /\ [][NextAddress]_vars

\* deduplicateResults, applied to every batch of up to MaxBatchLen
\* normalized records: the run is where the chain loop has ended.
DedupeRecords ==
  {Normalized(p, determineStatus(p, p.place_id, FALSE), TRUE, FALSE) :
     p \in {PA, PAc, PB, PN, PNc, PM, PNn, PNa}}

InitDedupe ==
  /\ sync_metadata = {NoMetadata}
  /\ settled = {}
  /\ served = {}
  /\ reply = NoReply
  /\ localStorage = NoEntry
  /\ fetched = NoFetch
  /\ supermarkets = {}
  /\ runs = 1
  /\ incidents = {}
  /\ ids = [sup |-> 1, inc |-> 1]
  /\ now = 0
  /\ ext = <<Ok(<<>>), Ok(<<>>), Ok(<<>>)>>
  /\ apiKey = TRUE
  /\ \E n \in 1..MaxBatchLen : \E batch \in [1..n -> DedupeRecords] :
       run = [r \in Procs |->
                IF r \in MainProcs
                THEN [IdleRun EXCEPT
                        !.pc = "search",
                        !.chainIdx = Len(DUTCH_SUPERMARKET_CHAINS) + 1,
                        !.g_searched = <<1, 2, 3>>,
                        !.allResults = batch]
                ELSE IdleRun]

NextDedupe == \E r \in MainProcs : Dedupe(r)

SpecDedupe == InitDedupe /\ [][NextDedupe]_vars

\* ------------------------------------------------------------- properties
ClosureFlag(place) ==
  place.business_status \in {"CLOSED_PERMANENTLY", "CLOSED_TEMPORARILY"}

\* Every normalized record a run holds.
RunRecords(me) ==
  Range(me.converted) \cup Range(me.allResults) \cup Range(me.uniqueResults)

\* The store holds the record as written.
InStore(rec) ==
  \E s \in supermarkets :
    /\ s.google_place_id = rec.google_place_id
    /\ s.name = rec.name
    /\ s.latitude = rec.latitude
    /\ s.longitude = rec.longitude
    /\ s.status = rec.status

\* C1: a place whose business_status is CLOSED_PERMANENTLY or
\* CLOSED_TEMPORARILY is resolved to 'closed', whatever its open_now flag and
\* whatever incidents its location has: in every record a run derives and in
\* every row it stores.
C1_ClosureFlagIsClosed ==
  /\ \A s \in supermarkets : ClosureFlag(s.g_raw) => s.status = "closed"
  /\ \A r \in Procs : \A rec \in RunRecords(run[r]) :
       ClosureFlag(rec.g_raw) => rec.status = "closed"

\* C1 witness: a run stored 'closed' for a temporarily closed place that
\* reports open_now true and has no recent active incident.
C1_Witness ==
  \E s \in supermarkets :
    /\ s.last_updated = now
    /\ s.g_raw.business_status = "CLOSED_TEMPORARILY"
    /\ s.g_raw.open_now = "true"
    /\ ~s.g_recent
    /\ s.status = "closed"

C4_ReadEqualsWrite ==
  [][FetchSupermarkets =>
       \A row \in supermarkets :
         \E v \in served' :
           /\ v.id = row.id
           /\ v.status =
                determineStatus(row.g_raw, row.google_place_id,
                  hasRecentIncidents(row.google_place_id, TRUE, TRUE))]_vars

\* C5: once every incident of a location is resolved or closed, the status
\* fetchSupermarkets serves for it is the one derived from the closure flag
\* and the opening hours alone.  An incident is reported as 'open' and
\* IncidentTriggerRaises refuses every later change of it, so no location
\* with a reported incident comes to have all its incidents resolved or
\* closed: the property says nothing about a behaviour of Spec.
C5_ResolvedIncidentsDoNotClose ==
  [][FetchSupermarkets =>
       \A row \in supermarkets :
         (/\ IncidentsOf(row) # {}
          /\ \A i \in IncidentsOf(row) : i.status \in {"resolved", "closed"})
         => \E v \in served' :
              /\ v.id = row.id
              /\ v.status = determineStatus(row.g_raw, "", FALSE)]_vars

\* C6: a run that follows a run with the same external answers, with no
\* store failure and no other store activity in between, leaves the rows of
\* the store as they were, timestamps apart.
C6_SecondRunChangesNothing ==
  \A r \in MainProcs :
    (run[r].pc = "done" /\ run[r].g_clean) =>
      \A before \in run[r].g_base : StripStore(supermarkets) = before

\* The external ids of a batch, and where each one first occurs.
ExternalIds(batch) ==
  {batch[j].google_place_id : j \in 1..Len(batch)} \ {""}

FirstIndex(batch, g) ==
  CHOOSE j \in 1..Len(batch) :
    /\ batch[j].google_place_id = g
    /\ \A j2 \in 1..(j - 1) : batch[j2].google_place_id # g

\* C7: deduplicateResults returns, for every external id of the batch,
\* exactly one record, the first of the batch with that id; it returns only
\* records of the batch, in the order in which they first occur.
C7_OnePerExternalId ==
  \A r \in MainProcs :
    run[r].pc = "lookup" =>
      LET batch == run[r].allResults
          kept == run[r].uniqueResults
      IN /\ \A g \in ExternalIds(batch) :
              /\ Cardinality({j \in 1..Len(kept) :
                                kept[j].google_place_id = g}) = 1
              /\ \A j \in 1..Len(kept) :
                   kept[j].google_place_id = g =>
                     kept[j] = batch[FirstIndex(batch, g)]
         /\ \A j \in 1..Len(kept) : kept[j] \in Range(batch)
         /\ \A j1 \in 1..Len(kept), j2 \in 1..Len(kept) :
              (/\ j1 < j2
               /\ kept[j1].google_place_id # ""
               /\ kept[j2].google_place_id # "")
              => FirstIndex(batch, kept[j1].google_place_id)
                   < FirstIndex(batch, kept[j2].google_place_id)

\* C7 witness: a batch of three records with two external ids, one of them
\* twice with different data, was reduced to the two first occurrences.
C7_Witness ==
  \E r \in MainProcs :
    /\ run[r].pc = "lookup"
    /\ Len(run[r].allResults) = 3
    /\ Len(run[r].uniqueResults) = 2
    /\ Cardinality(ExternalIds(run[r].allResults)) = 2
    /\ \E j1 \in 1..3, j2 \in 1..3 :
         /\ j1 < j2
         /\ run[r].allResults[j1].google_place_id
              = run[r].allResults[j2].google_place_id
         /\ run[r].allResults[j1] # run[r].allResults[j2]

\* The in-bounds results of the chains 1..c whose search succeeded, in order.
RECURSIVE Gathered(_)
Gathered(c) ==
  IF c = 0 THEN <<>>
  ELSE Gathered(c - 1) \o
         (IF ext[c].ok THEN SelectSeq(ext[c].results, InBounds) ELSE <<>>)

UpTo(n) == [j \in 1..n |-> j]

\* C8: a failed chain search never ends the run (a run is in its catch block
\* only before its first search); every chain is searched once, in order,
\* failed or not; and after the loop the batch is exactly the in-bounds
\* results of the chains that succeeded, it is deduplicated, and every
\* deduplicated record is written (and is in the store unless the store
\* refused a write).
C8_ChainFailureDoesNotAbort ==
  \A r \in MainProcs :
    LET me == run[r]
        n == Len(DUTCH_SUPERMARKET_CHAINS)
    IN /\ me.pc \in {"catch", "exited"} => me.g_searched = <<>>
       /\ me.pc = "search" => me.g_searched = UpTo(me.chainIdx - 1)
       /\ me.pc \in {"convert", "delay"} => me.g_searched = UpTo(me.chainIdx)
       /\ me.pc \in {"lookup", "update", "metadata", "done"} =>
            /\ me.g_searched = UpTo(n)
            /\ [j \in 1..Len(me.allResults) |-> me.allResults[j].g_raw]
                 = Gathered(n)
            /\ {rec.google_place_id : rec \in Range(me.uniqueResults)}
                 = {p.place_id : p \in Range(Gathered(n))}
            /\ Range(me.uniqueResults) \subseteq Range(me.allResults)
       /\ me.pc \in {"metadata", "done"} =>
            /\ Range(me.uniqueResults) \subseteq me.g_attempted
            /\ me.g_rejected = {} =>
                 \A rec \in Range(me.uniqueResults) : InStore(rec)

\* C8 witness: a run ended after a chain search failed and a later chain
\* returned results, and those results are in the store.
C8_Witness ==
  \E r \in MainProcs :
    /\ run[r].pc = "done"
    /\ run[r].totalInserted > 0
    /\ \E c \in 1..2, c2 \in 2..3 :
         /\ c < c2
         /\ ~ext[c].ok
         /\ ext[c2].ok
         /\ SelectSeq(ext[c2].results, InBounds) # <<>>
         /\ \A p \in Range(SelectSeq(ext[c2].results, InBounds)) :
              \E s \in supermarkets :
                s.google_place_id = p.place_id /\ s.name = p.name

\* C9: when the upsert phase is over, every record of the run that the store
\* did not reject is in the store.
C9_OtherRecordsStillWritten ==
  \A r \in MainProcs :
    run[r].pc \in {"metadata", "done"} =>
      \A rec \in Range(run[r].uniqueResults) \ run[r].g_rejected :
        InStore(rec)

\* The location's external id occurs in the batch of a run.
InBatch(s) ==
  /\ s.google_place_id # ""
  /\ \E r \in MainProcs : \E rec \in Range(run[r].uniqueResults) :
       rec.google_place_id = s.google_place_id

\* C10: no step of a run removes a row, and a step leaves every field of a
\* row unchanged unless the row's external id occurs in the run's batch.
C10_NeverErases ==
  [][\A s \in supermarkets :
       \E t \in supermarkets' :
         /\ t.id = s.id
         /\ InBatch(s) \/ t = s]_vars

\* C10 witness: a run that inserted and updated rows has ended, and the row
\* of the location the external source does not know is as it was.
C10_Witness ==
  \E r \in MainProcs :
    /\ run[r].pc = "done"
    /\ run[r].totalUpdated > 0
    /\ run[r].totalInserted > 0
    /\ RowD \in supermarkets
    /\ ~InBatch(RowD)

\* The sync_metadata row a run has to answer for.
MetadataRow == CHOOSE m \in sync_metadata : m.id = 1

\* C11: a run that has ended has written its outcome to the sync_metadata
\* row: status 'success' with the processed count after a normal end, status
\* 'error' with the message after a fatal error (store failures apart: the
\* run's statements were all accepted, or its error update was).
C11_TerminatedRunWroteMetadata ==
  \A r \in MainProcs :
    LET me == run[r]
    IN /\ (me.pc = "done" /\ me.g_clean) =>
            /\ MetadataRow.status = "success"
            /\ MetadataRow.total_locations
                 = me.totalInserted + me.totalUpdated
            /\ MetadataRow.last_sync = now
       /\ (me.pc = "exited" /\ me.g_metaWritten) =>
            /\ MetadataRow.status = "error"
            /\ MetadataRow.error_message = me.error

\* The sync_metadata row as the run found it when it started.
MetadataBefore(me) == CHOOSE m \in me.g_meta : m.id = 1

\* What a fatal error leaves of the store, whatever becomes of the metadata:
\* the error came before the first search and no search follows it, the
\* supermarkets table is as the run found it, and the process exits with
\* code 1.
FatalErrorKeepsData(me) ==
  /\ me.pc \in {"catch", "exited"} =>
       /\ me.error \in {"Google Places API key is required",
                        "Supabase connection failed"}
       /\ me.g_searched = <<>>
       /\ supermarkets = me.g_store
  /\ me.pc = "exited" => me.exitCode = 1

\* The row reports the run's error and keeps the previous run's last_sync
\* and total_locations.
MetadataReportsError(me) ==
  /\ MetadataRow.status = "error"
  /\ MetadataRow.error_message = me.error
  /\ MetadataRow.last_sync = MetadataBefore(me).last_sync
  /\ MetadataRow.total_locations = MetadataBefore(me).total_locations

\* C12 as amended: on a missing credential or a failed connection test no
\* search follows, no row of supermarkets is inserted, updated or deleted,
\* and the process exits with code 1; the sync_metadata row gets status
\* 'error' and the message, keeping last_sync and total_locations, when the
\* store accepts that update, and is left as it was when the store does not.
C12_FatalErrorReportedIfStoreAccepts ==
  \A r \in MainProcs :
    LET me == run[r]
    IN /\ FatalErrorKeepsData(me)
       /\ me.pc = "exited" =>
            IF me.g_metaWritten THEN MetadataReportsError(me)
            ELSE sync_metadata = me.g_meta

\* C12 as stated: after every fatal error the sync_metadata row has status
\* 'error' and the message.
C12_FatalErrorReported ==
  \A r \in MainProcs :
    LET me == run[r]
    IN /\ FatalErrorKeepsData(me)
       /\ me.pc = "exited" => MetadataReportsError(me)

\* C12 witness: after a run that synced locations, a run failed its
\* connection test and exited; the row shows the error and still the first
\* run's last_sync and count, and the locations are still there.
C12_Witness ==
  \E r \in MainProcs :
    /\ run[r].pc = "exited"
    /\ run[r].error = "Supabase connection failed"
    /\ run[r].g_metaWritten
    /\ MetadataRow.status = "error"
    /\ MetadataBefore(run[r]).status = "success"
    /\ MetadataRow.total_locations > 0
    /\ supermarkets # {}

\* C13: the sync_metadata table holds exactly one row, the row with id 1,
\* whatever runs have succeeded or failed.
C13_MetadataSingleton ==
  /\ Cardinality(sync_metadata) = 1
  /\ \A m \in sync_metadata : m.id = 1

\* C13 witness: a run that ended normally has overwritten the row in which
\* the run before it had reported an error, and the table still has one row.
C13_Witness ==
  \E r \in MainProcs :
    /\ run[r].pc = "done"
    /\ run[r].g_metaWritten
    /\ MetadataBefore(run[r]).status = "error"
    /\ sync_metadata = {Success(run[r], MetadataBefore(run[r]))}

\* The bounding box of the claim: 50.5..53.7 by 3.2..7.3, sides included.
InBox(place) ==
  /\ place.lat \in 505..537
  /\ place.lng \in 32..73

\* C14: a raw result is normalized only if it lies in the box: the places a
\* run is about to normalize (and look up incidents for), the records it
\* holds, the records it tries to write and the rows of the store all come
\* from results in the box; and the sides of the box are in it: when the
\* chain loop is over, every result in the box that a successful search
\* returned has been normalized.
C14_OnlyInBoxNormalized ==
  /\ \A s \in supermarkets : InBox(s.g_raw)
  /\ \A r \in MainProcs :
       LET me == run[r]
       IN /\ \A p \in Range(me.pending) : InBox(p)
          /\ \A rec \in RunRecords(me) \cup me.g_attempted : InBox(rec.g_raw)
          /\ me.pc \in {"lookup", "update", "metadata", "done"} =>
               \A c \in 1..Len(ext) : \A p \in Range(ext[c].results) :
                 (ext[c].ok /\ InBox(p)) =>
                   \E rec \in Range(me.allResults) : rec.g_raw = p

\* C14 witness: the searches of a run returned places on two corners of the
\* box and places just outside each side; the run has ended and stored the
\* corner places and nothing else.
C14_Witness ==
  \E r \in MainProcs :
    /\ run[r].pc = "done"
    /\ run[r].g_store = {}
    /\ \E c \in 1..Len(ext) : \E p \in Range(ext[c].results) :
         p.lat = SOUTH - 1
    /\ \E c \in 1..Len(ext) : \E p \in Range(ext[c].results) :
         p.lng = EAST + 1
    /\ {<<s.latitude, s.longitude>> : s \in supermarkets}
         = {<<SOUTH, WEST>>, <<NORTH, EAST>>}

\* No two rows share an external id that is not null.
ExternalIdUnique ==
  \A s1 \in supermarkets, s2 \in supermarkets :
    (s1.google_place_id # "" /\ s1.google_place_id = s2.google_place_id)
      => s1 = s2

\* After a run without store failure, every record of the run whose external
\* id the store held when the run started is in the row that held it.
UpdatedInPlace ==
  \A r \in MainProcs :
    (run[r].pc = "done" /\ run[r].g_clean) =>
      \A rec \in Range(run[r].uniqueResults) : \A s \in run[r].g_store :
        (rec.google_place_id # ""
         /\ rec.google_place_id = s.google_place_id)
        => \E t \in supermarkets :
             /\ t.id = s.id
             /\ t.google_place_id = rec.google_place_id
             /\ t.name = rec.name
             /\ t.status = rec.status
             /\ t.last_updated = now

\* C15: in every state no two rows share a non-null external id; a step
\* inserts a row only for an external id the store does not hold (or for no
\* external id), and every row keeps its internal id and its external id; a
\* record whose external id the store holds is written into that row.
C15_UniqueUnderUpsert ==
  /\ [](ExternalIdUnique /\ UpdatedInPlace)
  /\ [][/\ \A t \in supermarkets' :
             (\A s \in supermarkets : s.id # t.id) =>
               \/ t.google_place_id = ""
               \/ RowsByPlaceId(t.google_place_id) = {}
        /\ \A s \in supermarkets :
             \E t \in supermarkets' :
               t.id = s.id /\ t.google_place_id = s.google_place_id]_vars

\* C15 witness: a run has ended that wrote the record of a stored location
\* into its row and inserted one location the store did not hold.
C15_Witness ==
  \E r \in MainProcs :
    /\ run[r].pc = "done"
    /\ \E t \in supermarkets :
         /\ t.id = RowA.id
         /\ t.google_place_id = RowA.google_place_id
         /\ t.last_updated = now
    /\ \E t \in supermarkets :
         /\ t.id \notin {s.id : s \in run[r].g_store}
         /\ t.google_place_id \notin
              {s.google_place_id : s \in run[r].g_store} \cup {""}
    /\ Cardinality(supermarkets) = Cardinality(run[r].g_store) + 1

\* The refusal C15 relies on happens: the lookup of a stored external id failed,
\* the record went to the insert and the unique index refused it.
C15_RefusedWitness ==
  \E r \in MainProcs : \E rec \in run[r].g_rejected :
    /\ RowsByPlaceId(rec.google_place_id) # {}
    /\ rec \in Range(run[r].newRecords)

\* The incidents of the set that a bulk-resolve has to change.
ToResolve(incident_ids) ==
  {i \in incidents : i.id \in incident_ids /\ i.status # "resolved"}

\* C16: a call of bulk_resolve_incidents by an admin, with a set of incident
\* ids and the note 'fixed', sets status 'resolved' and admin_notes 'fixed'
\* on every incident of the set that is not resolved, leaves every other
\* incident as it is, and returns the number of incidents it changed.
C16_BulkResolvePostcondition ==
  [][\A incident_ids \in SUBSET {i.id : i \in incidents} :
       BulkResolve(Admin, incident_ids, "fixed") =>
         /\ \A i \in ToResolve(incident_ids) :
              [i EXCEPT !.status = "resolved", !.admin_notes = "fixed"]
                \in incidents'
         /\ \A i \in incidents \ ToResolve(incident_ids) : i \in incidents'
         /\ Cardinality(incidents') = Cardinality(incidents)
         /\ reply'.error = "null"
         /\ reply'.data = <<Cardinality(ToResolve(incident_ids))>>]_vars

\* C17: a caller other than an authenticated one with role claim
\* 'supermarket_admin' who calls get_admin_dashboard_stats or
\* bulk_resolve_incidents gets the access-denied error and no data, and the
\* call changes no incident.
C17_NonAdminDenied ==
  /\ []((/\ reply.op \in {"getAdminDashboardStats", "bulkResolveIncidents"}
         /\ reply.caller # Admin)
        => (reply.error = "Access denied" /\ reply.data = <<>>))
  /\ [][(/\ reply'.op \in {"getAdminDashboardStats", "bulkResolveIncidents"}
         /\ reply'.caller # Admin)
        => incidents' = incidents]_vars

C19_ReportSucceeds ==
  [][\A caller \in Callers, s \in supermarkets, kind \in AppIncidentTypes,
        priority \in {"undefined", "high"},
        reporter \in {"null", "jan@example.nl"} :
       ReportIncident(caller, FALSE, Form(s.id, kind, priority, reporter)) =>
         /\ reply'.error = "null"
         /\ incidents' = incidents \cup
              {IncidentRow(reply'.data[1], s.id, kind,
                           IF priority = "undefined" THEN "medium"
                           ELSE priority,
                           reporter, "open", now)}]_vars

\* C20: every incident that was ever created is in the store (the ids of
\* incidents are given in order: those created are 1..ids.inc - 1).
C20_IncidentsNeverDeleted ==
  \A j \in 1..(ids.inc - 1) : \E i \in incidents : i.id = j

\* The record or row, if it was normalized from the address of the case,
\* holds the street as address, the postal code as it stands in the
\* address, the city, and the country in none of the three.
ParsedAs(rec, case) ==
  rec.g_raw.formatted_address = case.formatted_address
  => /\ rec.address = case.street
     /\ rec.postal_code = case.postal_code
     /\ rec.city = case.city
     /\ IndexOf(rec.address, case.country) = 0
     /\ IndexOf(rec.postal_code, case.country) = 0
     /\ IndexOf(rec.city, case.country) = 0

\* C21: every record a run normalizes, and every row it stores, from an
\* address 'street, <4 digits><optional space><2 capitals> city, country'
\* has the street as address, the postal code and the city of the second
\* segment, and the country in none of the three; "Dorpsstraat 12, 1234 AB
\* Voorbeeldstad, Netherlands" gives "Dorpsstraat 12", "1234 AB" and
\* "Voorbeeldstad".
C21_AddressParsed ==
  \A case \in AddressCases :
    /\ \A s \in supermarkets : ParsedAs(s, case)
    /\ \A r \in MainProcs : \A rec \in RunRecords(run[r]) :
         ParsedAs(rec, case)

\* C21 witness: a run has ended and stored the place of the example with
\* the three values of the example.
C21_Witness ==
  \E r \in MainProcs : \E s \in supermarkets :
    /\ run[r].pc = "done"
    /\ s.g_raw.formatted_address
         = "Dorpsstraat 12, 1234 AB Voorbeeldstad, Netherlands"
    /\ s.address = "Dorpsstraat 12"
    /\ s.postal_code = "1234 AB"
    /\ s.city = "Voorbeeldstad"

\* C22: the chains are searched one after another, in order, and a run
\* that is about to search, or past its searches, has taken one delay step
\* after every search it made, failed or not.
C22_DelayBetweenSearches ==
  \A r \in MainProcs :
    LET me == run[r]
    IN /\ me.g_searched = UpTo(Len(me.g_searched))
       /\ me.pc \in {"search", "lookup", "update", "metadata", "done"} =>
            me.g_delays = Len(me.g_searched)

\* The columns a run writes, of a normalized record or of a row.
Written(x) ==
  [google_place_id |-> x.google_place_id, name |-> x.name,
   address |-> x.address, city |-> x.city, postal_code |-> x.postal_code,
   latitude |-> x.latitude, longitude |-> x.longitude, status |-> x.status]

\* C23: at whatever point a run is terminated, every row of the store is as
\* it was before the run or holds the value the run normalized for it (for
\* the row's external id, when the row was there before the run), every
\* row that was there before the run is still there, and no two rows share
\* an external id.
C23_InterruptedRunLeavesValidStore ==
  \A r \in MainProcs :
    LET me == run[r]
    IN me.pc # "idle" =>
         /\ \A s \in me.g_store : \E t \in supermarkets : t.id = s.id
         /\ \A t \in supermarkets :
              \/ t \in me.g_store
              \/ \E rec \in Range(me.uniqueResults) :
                   /\ Written(t) = Written(rec)
                   /\ \A s \in me.g_store :
                        s.id = t.id => s.google_place_id = rec.google_place_id
         /\ ExternalIdUnique

\* C23 witness: a run was terminated in the middle of its writes: it had
\* inserted a location and updated a row, and had a record left to write.
C23_Witness ==
  \E r \in MainProcs :
    /\ run[r].pc = "killed"
    /\ run[r].totalInserted > 0
    /\ run[r].totalUpdated > 0
    /\ \E rec \in Range(run[r].uniqueResults) : rec \notin run[r].g_attempted
    /\ \E t \in supermarkets : t \notin run[r].g_store /\ t.id = RowA.id

\* What one uninterrupted run leaves of a store, ids and timestamps apart:
\* the rows whose external id is not in the batch as they were, and one row
\* per record of the batch.
SingleRunStore(before, records) ==
  {Written(s) : s \in {b \in before :
                         \A rec \in Range(records) :
                           b.google_place_id = ""
                           \/ b.google_place_id # rec.google_place_id}}
    \cup {Written(rec) : rec \in Range(records)}

SingleRunCount(before, records) ==
  Cardinality({b \in before :
                 \A rec \in Range(records) :
                   b.google_place_id = ""
                   \/ b.google_place_id # rec.google_place_id})
    + Len(records)

\* C24: when a run was terminated and the run after it, with the same
\* external answers, ends without a store failure, the store holds what a
\* single uninterrupted run would have left of the store the terminated run
\* found: the same rows, ids and timestamps apart, and as many (no
\* duplicates); and the metadata shows 'success'.
C24_NextRunHeals ==
  \A r \in MainProcs :
    LET me == run[r]
    IN (me.pc = "done" /\ me.g_clean /\ me.g_before # {}) =>
         \A before \in me.g_before :
           /\ {Written(t) : t \in supermarkets}
                = SingleRunStore(before, me.uniqueResults)
           /\ Cardinality(supermarkets)
                = SingleRunCount(before, me.uniqueResults)
           /\ MetadataRow.status = "success"

\* The composite key of the claim, and the records of a batch that are the
\* first of the batch with their composite key.
CompositeKey(rec) == <<rec.name, rec.address, rec.city>>

RECURSIVE FirstByCompositeKey(_, _)
FirstByCompositeKey(records, seen) ==
  IF records = <<>> THEN <<>>
  ELSE IF CompositeKey(Head(records)) \in seen
       THEN FirstByCompositeKey(Tail(records), seen)
       ELSE <<Head(records)>>
              \o FirstByCompositeKey(Tail(records),
                                     seen \cup {CompositeKey(Head(records))})

WithoutExternalId(records) ==
  SelectSeq(records, LAMBDA rec : rec.google_place_id = "")

\* C25: of the records of a batch that have no external id,
\* deduplicateResults keeps exactly the first one for every (name, address,
\* city): two with equal name, address and city give one, two that differ
\* in any of the three are both kept.
C25_FallbackKeyNameAddressCity ==
  \A r \in MainProcs :
    run[r].pc = "lookup" =>
      WithoutExternalId(run[r].uniqueResults)
        = FirstByCompositeKey(WithoutExternalId(run[r].allResults), {})

\* The cache item is an entry aged 24 hours or more, or cannot be parsed.
Stale(item, at) ==
  \/ item.kind = "unparsable"
  \/ item.kind = "entry" /\ at - item.timestamp >= 24

\* C26: a call of placesService returns cached data only from an entry less
\* than 24 hours old; a read that finds an entry of 24 hours or more, or an
\* item that cannot be parsed, does not return it and removes it (the item
\* is gone after the call, or is the entry the call has just written); and
\* fetchAllSupermarkets(true) never returns from the cache.
C26_CacheValidFor24Hours ==
  /\ [](fetched.from = "cache" =>
          /\ ~fetched.forceRefresh
          /\ fetched.g_item.kind = "entry"
          /\ fetched.g_at - fetched.g_item.timestamp < 24
          /\ fetched.data = fetched.g_item.data)
  /\ []((fetched.op = "fetchAllSupermarkets" /\ fetched.forceRefresh) =>
          fetched.from \in {"file", "database", "error"})
  /\ [][(/\ fetched' # fetched
         /\ \/ fetched'.op = "fetchAllSupermarkets" /\ ~fetched'.forceRefresh
            \/ fetched'.op = "getCacheInfo"
         /\ Stale(localStorage, now))
        => /\ fetched'.from # "cache"
           /\ \/ localStorage' = NoEntry
              \/ /\ fetched'.from \in {"file", "database"}
                 /\ localStorage' = CachedData(now, fetched'.data)]_vars

\* C26 witness: a read found an entry one tick of the clock old (24 hours,
\* the youngest age at which an entry is no longer served), did not return
\* it, and the entry is gone.
C26_Witness ==
  /\ fetched.op = "fetchAllSupermarkets"
  /\ ~fetched.forceRefresh
  /\ fetched.g_item.kind = "entry"
  /\ fetched.g_at - fetched.g_item.timestamp = TickHours
  /\ fetched.g_at - fetched.g_item.timestamp >= 24
  /\ fetched.from = "error"
  /\ localStorage = NoEntry

\* An entry younger than 24 hours, but not new, is served: the entry was
\* written half a tick before the call.
C26_ServedWitness ==
  /\ fetched.from = "cache"
  /\ fetched.g_at - fetched.g_item.timestamp > 0
  /\ localStorage = fetched.g_item

\* C27: when two runs that work on the same answers have both ended,
\* however their lookups, inserts and updates were interleaved (and no
\* statement of theirs failed), the store holds what a single run would have
\* left of the store they found: one row per record of the batch, with the
\* normalized values, none missing and none twice.
C27_OverlappingRunsTolerated ==
  (\A r \in Procs : run[r].pc = "done" /\ run[r].g_clean) =>
    \A r \in Procs :
      /\ {Written(t) : t \in supermarkets}
           = SingleRunStore(run[r].g_store, run[r].uniqueResults)
      /\ Cardinality(supermarkets)
           = SingleRunCount(run[r].g_store, run[r].uniqueResults)

\* The record the last step of convertToSupermarketData produced: the last
\* of the chain's converted records, or of allResults once the chain's
\* records were pushed.
LastConverted(me) ==
  IF me.pc = "delay" THEN me.allResults[Len(me.allResults)]
  ELSE me.converted[Len(me.converted)]

\* C28: when the lookup of the location row or of its incidents fails, or
\* no location row has the external id, the record is normalized all the
\* same, with the status the closure flag and the opening hours give (as for
\* a location without recent incident), and the run goes on with the next
\* place or the next chain, with no error recorded.
C28_LookupFailureFailsOpen ==
  [][\A r \in Procs :
       Convert(r) =>
         LET rec == LastConverted(run'[r])
         IN /\ rec.g_raw = Head(run[r].pending)
            /\ (~rec.g_looked \/ RowsByPlaceId(rec.google_place_id) = {})
                 => rec.status = determineStatus(rec.g_raw, "", FALSE)
            /\ run'[r].pc \in {"convert", "delay"}
            /\ run'[r].error = run[r].error
            /\ run'[r].exitCode = run[r].exitCode]_vars

\* C28 witness: a run ended normally and stored 'open' for a place whose
\* incident lookup failed while its location had a recent active incident.
C28_Witness ==
  \E r \in Procs : \E s \in supermarkets :
    /\ run[r].pc = "done"
    /\ run[r].exitCode = 0
    /\ \E rec \in run[r].g_attempted : rec.g_raw = s.g_raw
    /\ ~s.g_looked
    /\ s.g_recent
    /\ s.g_raw.open_now = "true"
    /\ s.status = "open"

\* C29: what get_admin_dashboard_stats returns to an admin caller is the
\* four counts of the store it reads: total_supermarkets is the number of
\* locations, active_incidents the number of incidents with status open or
\* investigating, resolved_incidents the number with status resolved or
\* closed, and total_incidents = active_incidents + resolved_incidents.
C29_DashboardCountersPartition ==
  [][GetAdminDashboardStats(Admin) =>
       /\ reply'.error = "null"
       /\ LET total_supermarkets == reply'.data[1]
              total_incidents == reply'.data[2]
              active_incidents == reply'.data[3]
              resolved_incidents == reply'.data[4]
          IN /\ total_supermarkets = Cardinality(supermarkets)
             /\ total_incidents = Cardinality(incidents)
             /\ active_incidents =
                  Cardinality({i \in incidents : i.status \in ActiveStatuses})
             /\ resolved_incidents =
                  Cardinality({i \in incidents :
                                 i.status \in {"resolved", "closed"}})
             /\ total_incidents = active_incidents + resolved_incidents]_vars

\* C29 witness: an admin was answered counts of a store with locations,
\* with active incidents and with closed ones.
C29_Witness ==
  /\ reply.op = "getAdminDashboardStats"
  /\ reply.caller = Admin
  /\ reply.error = "null"
  /\ reply.data[1] > 0
  /\ reply.data[3] > 0
  /\ reply.data[4] > 0
  /\ \E i \in incidents : i.status = "closed"
  /\ reply.data[2] = Cardinality(incidents)

\* C30: when a run records 'success', the write of every record of the
\* deduplicated batch has been attempted, and the total_locations it
\* records is the number of rows the run wrote to the store, the inserted
\* and the updated ones (g_written), at most the size of the deduplicated
\* batch.
C30_SuccessCountsWrittenRecords ==
  [][\A r \in Procs :
       (Metadata(r) /\ run'[r].g_metaWritten) =>
         /\ Range(run[r].uniqueResults) \subseteq run[r].g_attempted
         /\ \A m \in sync_metadata' :
              m.id = 1 =>
                /\ m.status = "success"
                /\ m.total_locations = run[r].g_written
                /\ m.total_locations <= Len(run[r].uniqueResults)]_vars

====
